---- MODULE Spec2Model ----
(***************************************************************************)
(* Model of backend/server.py: the personalised news feed.                 *)
(*                                                                         *)
(* State: the document-store collections read by the recommendation code,  *)
(* the two affinity-cache backends (the in-process dict _affinity_cache    *)
(* and the Redis keys "affinity:<user>"), the clock, and one record per    *)
(* in-flight GET /articles request.  A request is cut at its awaits: each  *)
(* action below is the code that runs between two awaits.                  *)
(*                                                                         *)
(* Python floats are modelled as exact rationals <<n, d>> (d > 0, lowest   *)
(* terms); rounding of IEEE doubles is not modelled.  Time is in whole     *)
(* seconds.                                                                *)
(***************************************************************************)
EXTENDS Integers, Sequences, FiniteSets, TLC

VARIABLES
    now,                \* time.time() / datetime.now(), in seconds
    ticks,              \* number of clock advances so far (bounded)
    redisOn,            \* truth value of _redis (REDIS_URL set at startup)
    articles,           \* db.articles: article_id -> document
    interests,          \* db.users: user_id -> declared interests
    reading_history,    \* db.reading_history: set of documents
    comments,           \* db.comments: <<user_id, article_id>> -> number of documents
    poll_votes,         \* db.poll_votes: set of documents
    article_likes,      \* db.article_likes: set of documents
    relevance_feedback, \* db.relevance_feedback: sequence of documents (append-only)
    affinity_cache,     \* _affinity_cache: user_id -> NoEntry or [scores, ts]
    redis,              \* Redis key affinity:<user_id> -> NoEntry or [value, exp]
    req,                \* per request: its state (position, arguments, locals, result)
    scoring,            \* a direct call of _score_article: its arguments and result
    fbInFlight,         \* users with a feedback submission between its insert and its pop
    fbDone,             \* history: per user, number of completed feedback submissions
    lastStore,          \* history: per user, the latest affinity store [scores, t, fb]
    calls,              \* per call of an authenticated endpoint: its state
    polls,              \* db.polls: poll_id -> votes (option -> count)
    user_sessions,      \* db.user_sessions: session_token -> document
    reported,           \* history: per (user, article), what was reported so far
    anthropic_api_key,  \* truth value of ANTHROPIC_API_KEY
    ai_questions_cache, \* db.ai_questions_cache: sequence of documents
    ai,                 \* per call of GET /ai/questions/{article_id}: its state
    ingest,             \* per application instance: its _background_news_ingestor task
    ingestion_lock,     \* Redis key ingestion:lock -> NoEntry or [exp]
    recat,              \* the call of POST /admin/recategorize
    claude_categorized  \* db.articles: the ids of the documents with claude_categorized = true

vars == <<now, ticks, redisOn, articles, interests, reading_history, comments,
          poll_votes, article_likes, relevance_feedback, affinity_cache, redis,
          req, scoring, fbInFlight, fbDone, lastStore,
          calls, polls, user_sessions, reported,
          anthropic_api_key, ai_questions_cache, ai, ingest, ingestion_lock, recat,
          claude_categorized>>

opVars == <<calls, polls, user_sessions, reported>>

\* the AI-questions endpoint, the background ingestor and the admin migration
sysVars == <<anthropic_api_key, ai_questions_cache, ai, ingest, ingestion_lock, recat,
             claude_categorized>>

dbVars == <<articles, interests, reading_history, comments, poll_votes,
            article_likes, relevance_feedback>>

-----------------------------------------------------------------------------
(* Bounds of the model *)

MaxTicks == 2           \* clock advances per behaviour
MaxComments == 3        \* comments per (user, article)
MaxFeedback == 1        \* relevance-feedback documents in the collection
MaxSpent == 60          \* |time_spent| of a reading-history document

-----------------------------------------------------------------------------
(* Program constants *)

AFFINITY_CACHE_TTL_SEC == 300
CANDIDATE_LIMIT == 50
TOP_N == 10
RELEVANCE_DOCS_LIMIT == 5000    \* to_list(5000) of the relevance_feedback query

-----------------------------------------------------------------------------
(* Exact rationals standing for Python floats *)

RECURSIVE GCD(_, _)
GCD(a, b) == IF b = 0 THEN a ELSE GCD(b, a % b)

Abs(x) == IF x < 0 THEN -x ELSE x

Rat(n, d) == LET g == GCD(Abs(n), d) IN <<n \div g, d \div g>>

RInt(k) == <<k, 1>>

RAdd(x, y) == Rat(x[1] * y[2] + y[1] * x[2], x[2] * y[2])

RMulInt(x, k) == Rat(x[1] * k, x[2])

RDivInt(x, k) == Rat(x[1], x[2] * k)

RLess(x, y) == x[1] * y[2] < y[1] * x[2]

RLeq(x, y) == x[1] * y[2] <= y[1] * x[2]

RMin(x, y) == IF RLess(y, x) THEN y ELSE x

RMax(x, y) == IF RLess(x, y) THEN y ELSE x

-----------------------------------------------------------------------------
(* Values *)

NoUser == "anonymous"       \* get_current_user returned None
NoEntry == [absent |-> TRUE] \* dict.get / redis GET found nothing
NoCategory == ""            \* falsy category
NoDate == <<>>              \* published_at missing or unparseable; a date t is <<t>>
NoFilter == "nofilter"      \* category / subcategory parameter not given

Users == {"u1", "u2"}
Categories == {"Politics", "Technology"}
ArticleIds == 1..4          \* article_id values of the seeded articles
PollIds == {"p1", "p3"}

StartTime == 100000

\* db.polls: poll_id -> article_id
PollArticle == [p \in PollIds |-> IF p = "p1" THEN 1 ELSE 3]

\* db.polls: the options of every poll, and poll_id -> created_at (p3 is
\* exactly 7 days old when the model starts)
PollOptions == {"yes", "no"}
PollCreated == [p \in PollIds |-> IF p = "p1" THEN StartTime - 3600
                                  ELSE StartTime - 7 * 86400]

NoToken == ""               \* no session_token cookie and no Bearer header
Tokens == {NoToken, "bogus", "s1", "s2", "old", "s9"}

\* db.user_sessions as seeded: s1 (u1) expires one second after the start,
\* s2 (u2) in a week, old (u1) expired a second before the start, s9 belongs
\* to a user that db.users does not hold; "bogus" has no document
SeedSessions ==
    [t \in {"s1", "s2", "old", "s9"} |->
        CASE t = "s1"  -> [user_id |-> "u1", expires_at |-> StartTime + 1]
          [] t = "s2"  -> [user_id |-> "u2", expires_at |-> StartTime + 7 * 86400]
          [] t = "old" -> [user_id |-> "u1", expires_at |-> StartTime - 1]
          [] OTHER     -> [user_id |-> "u9", expires_at |-> StartTime + 7 * 86400]]

-----------------------------------------------------------------------------
(* Generic helpers *)

RECURSIVE RSum(_, _)
\* sum of f[x] over the finite set S (f[x] a rational)
RSum(S, f) ==
    IF S = {} THEN RInt(0)
    ELSE LET x == CHOOSE y \in S : TRUE IN RAdd(f[x], RSum(S \ {x}, f))

RECURSIVE RMaxOf(_, _)
\* max(0.0, f[x] for x in S)
RMaxOf(S, f) ==
    IF S = {} THEN RInt(0)
    ELSE LET x == CHOOSE y \in S : TRUE IN RMax(f[x], RMaxOf(S \ {x}, f))

SeqToSet(s) == {s[i] : i \in 1..Len(s)}

Take(s, n) == SubSeq(s, 1, IF n < Len(s) THEN n ELSE Len(s))

Drop(s, n) == SubSeq(s, n + 1, Len(s))

\* dict.get(key, 0.0)
Get(m, c) == IF c \in DOMAIN m THEN m[c] ELSE RInt(0)

EmptyMap == [c \in {} |-> RInt(0)]

-----------------------------------------------------------------------------
(* _get_user_affinity_scores: the Aggregator, as a function of what its      *)
(* queries returned.  hd: the user's reading_history documents; cd: article  *)
(* -> number of the user's comments; vd: the user's poll_votes documents;    *)
(* ld: the user's article_likes documents; arts: db.articles.                *)

\* {"completion": {}, "engagement": {}, "comments": {}, "poll_votes": {}, "likes": {}}
EmptyProfile ==
    [completion |-> EmptyMap, engagement |-> EmptyMap, comments |-> EmptyMap,
     poll_votes |-> EmptyMap, likes |-> EmptyMap]

\* category of an article id as the loops see it: NoCategory when the article
\* is not found or its category is falsy (both are skipped)
CatOf(arts, aid) ==
    IF aid \in DOMAIN arts THEN arts[aid].category ELSE NoCategory

\* history documents counted for category c (loop at "for h in history_docs")
HistOf(hd, arts, c) == {h \in hd : CatOf(arts, h.article_id) = c}

\* those of them whose article has a reading_time_sec baseline > 0
EngOf(hd, arts, c) ==
    {h \in HistOf(hd, arts, c) : arts[h.article_id].reading_time_sec > 0}

\* ratio = min(time_spent / rts, 1.0)
Ratio(h, arts) ==
    RMin(Rat(h.time_spent, arts[h.article_id].reading_time_sec), RInt(1))

\* variant: completion counted over the entries with a baseline only
completion_scores_baseline(hd, arts) ==
    LET cats == {c \in ({CatOf(arts, h.article_id) : h \in hd} \ {NoCategory}) :
                     EngOf(hd, arts, c) # {}}
    IN  [c \in cats |->
            RMulInt(Rat(Cardinality({h \in EngOf(hd, arts, c) : h.completed}),
                        Cardinality(EngOf(hd, arts, c))), 20)]

completion_scores(hd, arts) ==
    LET cats == {CatOf(arts, h.article_id) : h \in hd} \ {NoCategory}
    IN  [c \in cats |->
            RMulInt(Rat(Cardinality({h \in HistOf(hd, arts, c) : h.completed}),
                        Cardinality(HistOf(hd, arts, c))), 20)]

engagement_scores(hd, arts) ==
    LET cats == {c \in ({CatOf(arts, h.article_id) : h \in hd} \ {NoCategory}) :
                     EngOf(hd, arts, c) # {}}
    IN  [c \in cats |->
            LET E == EngOf(hd, arts, c)
                total_ratio == RSum(E, [h \in E |-> Ratio(h, arts)])
            IN  RMulInt(RDivInt(total_ratio, Cardinality(E)), 20)]

\* 10.0 if count >= 3 else count * 3.0
CommentPoints(count) == IF count >= 3 THEN RInt(10) ELSE RInt(count * 3)

\* comment_scores[cat] = max(comment_scores.get(cat, 0.0), points of the article)
comment_scores(cd, arts) ==
    LET commented == {a \in DOMAIN cd : cd[a] > 0}
        cats == {CatOf(arts, a) : a \in commented} \ {NoCategory}
    IN  [c \in cats |->
            LET A == {a \in commented : CatOf(arts, a) = c}
            IN  RMaxOf(A, [a \in A |-> CommentPoints(cd[a])])]

poll_vote_scores(vd, arts) ==
    LET voted_poll_ids == {v.poll_id : v \in vd}
        voted_article_ids == {PollArticle[p] : p \in voted_poll_ids \cap PollIds}
        cats == {CatOf(arts, a) : a \in voted_article_ids} \ {NoCategory}
    IN  [c \in cats |-> RInt(5)]

like_scores(ld, arts) ==
    LET cats == {CatOf(arts, d.article_id) : d \in ld} \ {NoCategory}
    IN  [c \in cats |-> RInt(5)]

\* the "scores" dict built after all five signals
ComputeScores(hd, cd, vd, ld, arts) ==
    [completion |-> completion_scores(hd, arts),
     engagement |-> engagement_scores(hd, arts),
     comments   |-> comment_scores(cd, arts),
     poll_votes |-> poll_vote_scores(vd, arts),
     likes      |-> like_scores(ld, arts)]

ProfileFields == {"completion", "engagement", "comments", "poll_votes", "likes"}

\* json.dumps(scores): every inner dict becomes the set of its "key": value
\* members; the text is never the empty string
JsonDumps(scores) ==
    [k \in ProfileFields |-> {<<c, scores[k][c]>> : c \in DOMAIN scores[k]}]

\* json.loads(text): every object becomes a dict again
JsonLoads(text) ==
    [k \in ProfileFields |->
        [c \in {m[1] : m \in text[k]} |-> (CHOOSE m \in text[k] : m[1] = c)[2]]]

-----------------------------------------------------------------------------
(* _score_article.  wildcard is the outcome of random.random() < 0.20. *)

\* variant: the two comparisons strict (age_hours < 6, age_hours < 24)
Freshness_strict(published_at, t) ==
    IF published_at = NoDate THEN RInt(0)
    ELSE IF (t - published_at[1]) < 6 * 3600 THEN RInt(10)
    ELSE IF (t - published_at[1]) < 24 * 3600 THEN RInt(5)
    ELSE RInt(0)

\* Signal 5: freshness, from age = now - published_at
Freshness(published_at, t) ==
    IF published_at = NoDate THEN RInt(0)
    ELSE IF (t - published_at[1]) <= 6 * 3600 THEN RInt(10)
    ELSE IF (t - published_at[1]) <= 24 * 3600 THEN RInt(5)
    ELSE RInt(0)

\* variant: the lower comparison inclusive (avg <= 0.3)
RelevanceAdj_inclusive(cat, relevance_by_category) ==
    IF cat \in DOMAIN relevance_by_category
    THEN IF RLess(<<1, 2>>, relevance_by_category[cat]) THEN RInt(10)
         ELSE IF RLeq(relevance_by_category[cat], <<3, 10>>) THEN RInt(-10)
         ELSE RInt(0)
    ELSE RInt(0)

\* Signal 4: relevance feedback
RelevanceAdj(cat, relevance_by_category) ==
    IF cat \in DOMAIN relevance_by_category
    THEN IF RLess(<<1, 2>>, relevance_by_category[cat]) THEN RInt(10)
         ELSE IF RLess(relevance_by_category[cat], <<3, 10>>) THEN RInt(-10)
         ELSE RInt(0)
    ELSE RInt(0)

\* variant: the explicit-like signal (3c) is left out
_score_article_nolikes(article, user_interests, affinity, relevance_by_category, t, wildcard) ==
    LET cat == article.category
        s1 == IF cat # NoCategory /\ cat \in user_interests THEN RInt(20) ELSE RInt(0)
        s2 == RAdd(s1, Get(affinity.completion, cat))
        s3 == RAdd(s2, Get(affinity.engagement, cat))
        s4 == RAdd(s3, Get(affinity.comments, cat))
        s5 == RAdd(s4, Get(affinity.poll_votes, cat))
        s7 == RAdd(s5, RelevanceAdj(cat, relevance_by_category))
        s8 == RAdd(s7, Freshness(article.published_at, t))
    IN  IF wildcard THEN RAdd(s8, RInt(10)) ELSE s8

_score_article(article, user_interests, affinity, relevance_by_category, t, wildcard) ==
    LET cat == article.category
        s1 == IF cat # NoCategory /\ cat \in user_interests THEN RInt(20) ELSE RInt(0)
        s2 == RAdd(s1, Get(affinity.completion, cat))
        s3 == RAdd(s2, Get(affinity.engagement, cat))
        s4 == RAdd(s3, Get(affinity.comments, cat))
        s5 == RAdd(s4, Get(affinity.poll_votes, cat))
        s6 == RAdd(s5, Get(affinity.likes, cat))
        s7 == RAdd(s6, RelevanceAdj(cat, relevance_by_category))
        s8 == RAdd(s7, Freshness(article.published_at, t))
    IN  IF wildcard THEN RAdd(s8, RInt(10)) ELSE s8

-----------------------------------------------------------------------------
(* get_articles: query, candidate retrieval, relevance roll-up, ranking *)

\* query dict built from the parameters; a falsy category/subcategory and a
\* developing of None add no condition (q.developing is {} for None, else {b})
Matches(a, q) ==
    /\ (q.category \notin {NoFilter, ""} => a.category = q.category)
    /\ (q.subcategory \notin {NoFilter, ""} => a.subcategory = q.subcategory)
    /\ (\A b \in q.developing : a.is_developing = b)

RECURSIVE SortPublishedDesc(_, _)
\* find(query).sort("published_at", -1): ids of S, most recent first
\* (published_at values are pairwise different in every table used here)
SortPublishedDesc(S, arts) ==
    IF S = {} THEN <<>>
    ELSE LET m == CHOOSE x \in S : \A y \in S : arts[y].published_at[1] <= arts[x].published_at[1]
         IN  <<m>> \o SortPublishedDesc(S \ {m}, arts)

FindSorted(arts, q) ==
    SortPublishedDesc({a \in DOMAIN arts : Matches(arts[a], q)}, arts)

\* variant: the skip is dropped, as on the authenticated path
Fallback_noskip(arts, q, limit, skip) == Take(FindSorted(arts, q), limit)

\* .skip(skip).limit(limit).to_list(limit)
Fallback(arts, q, limit, skip) == Take(Drop(FindSorted(arts, q), skip), limit)

\* variant: when nothing matches, the most recent articles of any kind
Candidates_unfiltered(arts, q) ==
    IF FindSorted(arts, q) = <<>>
    THEN Take(SortPublishedDesc(DOMAIN arts, arts), CANDIDATE_LIMIT)
    ELSE Take(FindSorted(arts, q), CANDIDATE_LIMIT)

\* .limit(CANDIDATE_LIMIT).to_list(CANDIDATE_LIMIT)
Candidates(arts, q) == Take(FindSorted(arts, q), CANDIDATE_LIMIT)

\* cat_map: categories of the candidates, then of the other articles that
\* feedback documents refer to (falsy categories are left out)
CatMap(cands, docs, arts) ==
    LET ids == SeqToSet(cands) \cup ({d.article_id : d \in SeqToSet(docs)} \cap DOMAIN arts)
    IN  [a \in {x \in ids : arts[x].category # NoCategory} |-> arts[a].category]

\* variant: only the candidates are resolved (no "extras" query)
RelevanceByCategory_window(cands, docs, arts) ==
    LET cat_map == CatMap(cands, <<>>, arts)
        idx(c) == {i \in 1..Len(docs) : /\ docs[i].article_id \in DOMAIN cat_map
                                        /\ cat_map[docs[i].article_id] = c}
        cats == {c \in Categories : idx(c) # {}}
    IN  [c \in cats |->
            Rat(Cardinality({i \in idx(c) : docs[i].is_relevant}), Cardinality(idx(c)))]

\* relevance_by_category: total / count per category over the user's documents
RelevanceByCategory(cands, docs, arts) ==
    LET cat_map == CatMap(cands, docs, arts)
        idx(c) == {i \in 1..Len(docs) : /\ docs[i].article_id \in DOMAIN cat_map
                                        /\ cat_map[docs[i].article_id] = c}
        cats == {c \in Categories : idx(c) # {}}
    IN  [c \in cats |->
            Rat(Cardinality({i \in idx(c) : docs[i].is_relevant}), Cardinality(idx(c)))]

\* variant: sort without reverse=True (ascending)
RECURSIVE SortScoreDesc_ascending(_)
SortScoreDesc_ascending(scored) ==
    IF scored = <<>> THEN <<>>
    ELSE LET i == CHOOSE k \in 1..Len(scored) :
                    /\ \A j \in 1..Len(scored) : RLeq(scored[k][1], scored[j][1])
                    /\ \A j \in 1..(k - 1) : RLess(scored[k][1], scored[j][1])
         IN  <<scored[i]>> \o
             SortScoreDesc_ascending(SubSeq(scored, 1, i - 1)
                                     \o SubSeq(scored, i + 1, Len(scored)))

RECURSIVE SortScoreDesc(_)
\* scored.sort(key=lambda x: x[0], reverse=True): stable, so among equal
\* scores the earlier element stays first
SortScoreDesc(scored) ==
    IF scored = <<>> THEN <<>>
    ELSE LET i == CHOOSE k \in 1..Len(scored) :
                    /\ \A j \in 1..Len(scored) : RLeq(scored[j][1], scored[k][1])
                    /\ \A j \in 1..(k - 1) : RLess(scored[j][1], scored[k][1])
         IN  <<scored[i]>> \o
             SortScoreDesc(SubSeq(scored, 1, i - 1) \o SubSeq(scored, i + 1, Len(scored)))

\* steps 3 of the authenticated path; wild: the set of candidate positions
\* whose wildcard draw came out below 0.20
Ranked(cands, arts, user_interests, affinity, relevance_by_category, t, wild) ==
    LET scored == [i \in 1..Len(cands) |->
                      <<_score_article(arts[cands[i]], user_interests, affinity,
                                       relevance_by_category, t, i \in wild),
                        cands[i]>>]
        sorted == SortScoreDesc(scored)
    IN  Take(sorted, TOP_N)

-----------------------------------------------------------------------------
(* State *)

Reqs == {"r1", "r2"}

\* db.articles as seeded: two Politics articles (one without a reading-time
\* baseline), one Technology article, one article without a category
SeedArticles ==
    [a \in ArticleIds |->
        CASE a = 1 -> [category |-> "Politics", subcategory |-> "India",
                          is_developing |-> TRUE, reading_time_sec |-> 60,
                          published_at |-> <<StartTime - 3600>>]
          [] a = 2 -> [category |-> "Politics", subcategory |-> "World",
                          is_developing |-> FALSE, reading_time_sec |-> 0,
                          published_at |-> <<StartTime - 30000>>]
          [] a = 3 -> [category |-> "Technology", subcategory |-> "AI",
                          is_developing |-> FALSE, reading_time_sec |-> 60,
                          published_at |-> <<StartTime - 90000>>]
          [] OTHER    -> [category |-> NoCategory, subcategory |-> "AI",
                          is_developing |-> FALSE, reading_time_sec |-> 60,
                          published_at |-> <<StartTime - 7200>>]]

NoQuery == [category |-> NoFilter, subcategory |-> NoFilter, developing |-> {}]

ZeroCounts == [a \in ArticleIds |-> 0]

\* a request slot with no request in it
IdleReq ==
    [pc |-> "idle", user |-> NoUser, q |-> NoQuery, limit |-> 0, skip |-> 0,
     user_interests |-> {}, cands |-> <<>>,
     hd |-> {}, cd |-> ZeroCounts, vd |-> {}, ld |-> {},
     affinity |-> EmptyProfile, relevance_by_category |-> EmptyMap, result |-> <<>>,
     error |-> "none",      \* which await raised, when the request failed
     \* history fields, read only by the properties
     hit |-> "none", age |-> -1, inval |-> FALSE, stored |-> EmptyProfile,
     reads |-> 0, scored |-> <<>>,
     entry0 |-> [dict |-> NoEntry, redis |-> NoEntry],
     \* the user's completed feedback submissions when the Aggregator run began
     fb0 |-> 0]

\* no direct call of _score_article
CallIds == {"k1", "k2"}

\* a call slot with no call in it
IdleCall ==
    [pc |-> "idle", op |-> "none", token |-> NoToken, user |-> NoUser,
     article |-> 0, poll |-> "", option |-> "", time_spent |-> 0, flag |-> FALSE,
     interests |-> {}, status |-> 0, detail |-> "",
     \* history field: the user had a vote on the poll when the call came in
     had |-> FALSE]

NoReport == [any |-> FALSE, sum |-> 0, last |-> FALSE]

\* calls of GET /ai/questions/{article_id} in flight at once
AiIds == {"a1", "a2"}

\* a slot with no AI-questions call in it
IdleAi == [pc |-> "idle", article |-> 0, questions |-> <<>>, status |-> 0,
           path |-> "none", lines |-> 0]

\* application instances that share the database and Redis
Instances == {"i1", "i2"}

\* an instance whose ingestor task has not been started
NoIngestor == [pc |-> "off", wake |-> 0, batch |-> <<>>, skipped |-> FALSE]

\* no call of POST /admin/recategorize
IdleRecat == [pc |-> "idle", batch |-> <<>>, total_updated |-> 0, status |-> 0]

\* no Anthropic key, nothing cached, no AI call, no ingestor, no migration
InitSys ==
    /\ anthropic_api_key = FALSE
    /\ ai_questions_cache = <<>>
    /\ ai = [k \in AiIds |-> IdleAi]
    /\ ingest = [i \in Instances |-> NoIngestor]
    /\ ingestion_lock = NoEntry
    /\ recat = IdleRecat
    /\ claude_categorized = {}

InitOps ==
    /\ calls = [k \in CallIds |-> IdleCall]
    /\ polls = [p \in PollIds |-> [o \in PollOptions |-> 0]]
    /\ user_sessions = SeedSessions
    /\ reported = [k \in Users \X ArticleIds |-> NoReport]

NoScoring ==
    [phase |-> "none", article |-> [category |-> NoCategory, published_at |-> NoDate],
     user_interests |-> {}, affinity |-> EmptyProfile, relevance_by_category |-> EmptyMap,
     t |-> 0, wildcard |-> FALSE, score |-> RInt(0)]

InitCore ==
    /\ now = StartTime
    /\ ticks = 0
    /\ articles = SeedArticles
    /\ interests = [u \in Users |-> IF u = "u1" THEN {"Technology"} ELSE {}]
    /\ reading_history = {}
    /\ comments = [k \in Users \X ArticleIds |-> 0]
    /\ poll_votes = {}
    /\ article_likes = {}
    /\ relevance_feedback = <<>>
    /\ affinity_cache = [u \in Users |-> NoEntry]
    /\ redis = [u \in Users |-> NoEntry]
    /\ req = [r \in Reqs |-> IdleReq]
    /\ scoring = NoScoring
    /\ fbInFlight = {}
    /\ fbDone = [u \in Users |-> 0]
    /\ lastStore = [u \in Users |-> NoEntry]
    /\ InitOps

InitCommon == InitCore /\ InitSys

\* REDIS_URL is either set or not when the process starts (lifespan)
Init == redisOn \in BOOLEAN /\ InitCommon

-----------------------------------------------------------------------------
(* Clock *)

Tick(d) ==
    /\ ticks < MaxTicks
    /\ now' = now + d
    /\ ticks' = ticks + 1
    /\ UNCHANGED <<redisOn, scoring, opVars, sysVars, dbVars, affinity_cache, redis, req, fbInFlight,
                   fbDone, lastStore>>

-----------------------------------------------------------------------------
(* Writers of the collections the Aggregator reads *)

HistoryDoc(u, a) == {h \in reading_history : h.user_id = u /\ h.article_id = a}

\* history: a view of a by u has completed
Viewed(rep, u, a) ==
    IF <<u, a>> \in DOMAIN rep THEN [rep EXCEPT ![<<u, a>>].any = TRUE] ELSE rep

\* history: a reading-time report of u on a has completed
Reported(rep, u, a, time_spent, completed) ==
    IF <<u, a>> \in DOMAIN rep
    THEN [rep EXCEPT ![<<u, a>>] = [any |-> TRUE, sum |-> @.sum + time_spent,
                                    last |-> completed]]
    ELSE rep

\* update_one(..., {"$inc": {"time_spent": ...}, "$set": {"completed": ...}},
\* upsert=True): one matching document is updated in place, or a new one with
\* the filter's and the update's fields is inserted
UpsertReadingTime(history, u, a, time_spent, completed) ==
    LET old == {h \in history : h.user_id = u /\ h.article_id = a}
    IN  IF old = {}
        THEN history \cup {[user_id |-> u, article_id |-> a,
                             time_spent |-> time_spent, completed |-> completed]}
        ELSE LET h == CHOOSE x \in old : TRUE
             IN  (history \ {h}) \cup
                    {[h EXCEPT !.time_spent = @ + time_spent, !.completed = completed]}

\* interact_with_article, action "view": 404 when the article is unknown;
\* otherwise a history document is inserted unless one exists
View(u, a) ==
    /\ a \in DOMAIN articles
    /\ reading_history' =
          IF HistoryDoc(u, a) = {}
          THEN reading_history \cup
                 {[user_id |-> u, article_id |-> a, time_spent |-> 0, completed |-> FALSE]}
          ELSE reading_history
    /\ reported' = Viewed(reported, u, a)
    /\ UNCHANGED <<now, ticks, redisOn, scoring, sysVars, calls, polls, user_sessions, articles,
                   interests, comments, poll_votes, article_likes, relevance_feedback,
                   affinity_cache, redis, req, fbInFlight, fbDone, lastStore>>

\* update_reading_time: upsert with $inc time_spent and $set completed; the
\* body's time_spent is not validated
ReadingTime(u, a, time_spent, completed) ==
    LET old == HistoryDoc(u, a)
        prev == IF old = {} THEN 0 ELSE (CHOOSE h \in old : TRUE).time_spent
    IN  /\ Abs(prev + time_spent) <= MaxSpent
        /\ reading_history' = UpsertReadingTime(reading_history, u, a, time_spent, completed)
        /\ reported' = Reported(reported, u, a, time_spent, completed)
        /\ UNCHANGED <<now, ticks, redisOn, scoring, sysVars, calls, polls, user_sessions, articles,
                       interests, comments, poll_votes, article_likes, relevance_feedback,
                       affinity_cache, redis, req, fbInFlight, fbDone, lastStore>>

\* create_comment: 404 when the article is unknown; otherwise one more document
Comment(u, a) ==
    /\ a \in DOMAIN articles
    /\ comments[<<u, a>>] < MaxComments
    /\ comments' = [comments EXCEPT ![<<u, a>>] = @ + 1]
    /\ UNCHANGED <<now, ticks, redisOn, scoring, opVars, sysVars, articles, interests, reading_history, poll_votes,
                   article_likes, relevance_feedback, affinity_cache, redis, req,
                   fbInFlight, fbDone, lastStore>>

\* days_passed >= 7, with days_passed = (now - created).days
PollExpired(p, t) == (t - PollCreated[p]) \div 86400 >= 7

\* vote_poll run without interleaving, voting "yes": rejected when the poll is
\* unknown or expired or the user has a vote on it
Vote(u, p) ==
    /\ p \in PollIds
    /\ ~PollExpired(p, now)
    /\ ~ \E v \in poll_votes : v.poll_id = p /\ v.user_id = u
    /\ poll_votes' = poll_votes \cup {[poll_id |-> p, user_id |-> u, option |-> "yes"]}
    /\ polls' = [polls EXCEPT ![p]["yes"] = @ + 1]
    /\ UNCHANGED <<now, ticks, redisOn, scoring, sysVars, calls, user_sessions, reported, articles,
                   interests, reading_history, comments, article_likes, relevance_feedback,
                   affinity_cache, redis, req, fbInFlight, fbDone, lastStore>>

\* interact_with_article, action "like": upsert of the (user, article) document
Like(u, a) ==
    /\ a \in DOMAIN articles
    /\ article_likes' = article_likes \cup {[user_id |-> u, article_id |-> a]}
    /\ UNCHANGED <<now, ticks, redisOn, scoring, opVars, sysVars, articles, interests, reading_history, comments,
                   poll_votes, relevance_feedback, affinity_cache, redis, req,
                   fbInFlight, fbDone, lastStore>>

\* submit_relevance_feedback up to the return of insert_one
SubmitFeedback(u, a, is_relevant) ==
    /\ u \notin fbInFlight
    /\ Len(relevance_feedback) < MaxFeedback
    /\ relevance_feedback' = Append(relevance_feedback,
          [user_id |-> u, article_id |-> a, is_relevant |-> is_relevant])
    /\ fbInFlight' = fbInFlight \cup {u}
    /\ UNCHANGED <<now, ticks, redisOn, scoring, opVars, sysVars, articles, interests, reading_history, comments,
                   poll_votes, article_likes, affinity_cache, redis, req, fbDone, lastStore>>

\* _affinity_cache.pop(user_id, None)
PopAffinity(cache, u) == [cache EXCEPT ![u] = NoEntry]

\* submit_relevance_feedback after insert_one: the pop, then the response
FeedbackInvalidate(u) ==
    /\ u \in fbInFlight
    /\ affinity_cache' = PopAffinity(affinity_cache, u)
    /\ fbInFlight' = fbInFlight \ {u}
    /\ fbDone' = [fbDone EXCEPT ![u] = @ + 1]
    /\ UNCHANGED <<now, ticks, redisOn, scoring, opVars, sysVars, dbVars, redis, req, lastStore>>

-----------------------------------------------------------------------------
(* Authentication: get_session_from_request, get_current_user, require_auth *)

\* variant: the expires_at test is left out
get_session_from_request_noexpiry(token, sessions, t) ==
    IF token = NoToken THEN NoEntry
    ELSE IF token \notin DOMAIN sessions THEN NoEntry
    ELSE sessions[token]

\* the session document of the request's token, or None
get_session_from_request(token, sessions, t) ==
    IF token = NoToken THEN NoEntry
    ELSE IF token \notin DOMAIN sessions THEN NoEntry
    ELSE IF sessions[token].expires_at < t THEN NoEntry
    ELSE sessions[token]

\* the user_id of the db.users document of the session's user, or None
get_current_user(token, sessions, users, t) ==
    LET session == get_session_from_request(token, sessions, t)
    IN  IF session = NoEntry THEN NoUser
        ELSE IF session.user_id \in DOMAIN users THEN session.user_id
        ELSE NoUser

\* POST /auth/logout: the session document of a valid token is deleted
Logout(token) ==
    /\ get_session_from_request(token, user_sessions, now) # NoEntry
    /\ user_sessions' = [t \in DOMAIN user_sessions \ {token} |-> user_sessions[t]]
    /\ UNCHANGED <<now, ticks, redisOn, scoring, sysVars, calls, polls, reported, dbVars,
                   affinity_cache, redis, req, fbInFlight, fbDone, lastStore>>

-----------------------------------------------------------------------------
(* Calls of the endpoints that depend on require_auth (and of /auth/me), cut  *)
(* at their awaits.  A call record holds the request's inputs; op names the   *)
(* endpoint.                                                                  *)

\* what no step of a call touches
\* everything but the AI-questions endpoint, the ingestor and the migration
webVars == <<now, ticks, redisOn, scoring, affinity_cache, redis, req, fbDone, lastStore,
             dbVars, fbInFlight, opVars>>

feedVars == <<now, ticks, redisOn, scoring, sysVars, affinity_cache, redis, req, fbDone,
              lastStore>>

\* the response of call k is decided
Done(k, status, detail) ==
    [calls EXCEPT ![k] = [@ EXCEPT !.pc = "returned", !.status = status, !.detail = detail]]

\* the dependency require_auth (for /auth/me: the same test in get_me) runs
\* before the endpoint's body: 401 when there is no current user
Enter(k, token, rq) ==
    /\ calls[k].pc = "idle"
    /\ LET user == get_current_user(token, user_sessions, interests, now)
           call == [rq EXCEPT !.token = token, !.user = user,
                              !.had = \E v \in poll_votes :
                                         v.poll_id = rq.poll /\ v.user_id = user]
       IN  calls' = [calls EXCEPT ![k] =
              IF user = NoUser
              THEN [call EXCEPT !.pc = "returned", !.status = 401,
                                !.detail = IF rq.op = "me" THEN "Not authenticated"
                                           ELSE "Authentication required"]
              ELSE [call EXCEPT !.pc = "body"]]
    /\ UNCHANGED <<feedVars, fbInFlight, polls, user_sessions, reported, dbVars>>

\* get_me returns the user; update_interests sets the user's interests
AccountBody(k) ==
    /\ calls[k].pc = "body" /\ calls[k].op \in {"me", "interests"}
    /\ interests' = IF calls[k].op = "interests"
                    THEN [interests EXCEPT ![calls[k].user] = calls[k].interests]
                    ELSE interests
    /\ calls' = Done(k, 200, "")
    /\ UNCHANGED <<feedVars, fbInFlight, polls, user_sessions, reported, articles,
                   reading_history, comments, poll_votes, article_likes, relevance_feedback>>

\* variant: a like also pops the user's entry of the in-process cache
LikeBody_pop(k) ==
    /\ calls[k].pc = "body" /\ calls[k].op = "like"
    /\ IF calls[k].article \notin DOMAIN articles
       THEN calls' = Done(k, 404, "Article not found")
            /\ UNCHANGED <<article_likes, affinity_cache>>
       ELSE /\ article_likes' = article_likes \cup
                  {[user_id |-> calls[k].user, article_id |-> calls[k].article]}
            /\ affinity_cache' = PopAffinity(affinity_cache, calls[k].user)
            /\ calls' = Done(k, 200, "")
    /\ UNCHANGED <<now, ticks, redisOn, scoring, sysVars, redis, req, fbDone, lastStore,
                   fbInFlight, polls, user_sessions, reported, articles, interests,
                   reading_history, comments, poll_votes, relevance_feedback>>

\* interact_with_article, action "like": 404, or the upsert of the like document
LikeBody(k) ==
    /\ calls[k].pc = "body" /\ calls[k].op = "like"
    /\ IF calls[k].article \notin DOMAIN articles
       THEN calls' = Done(k, 404, "Article not found") /\ UNCHANGED article_likes
       ELSE /\ article_likes' = article_likes \cup
                  {[user_id |-> calls[k].user, article_id |-> calls[k].article]}
            /\ calls' = Done(k, 200, "")
    /\ UNCHANGED <<feedVars, fbInFlight, polls, user_sessions, reported, articles, interests,
                   reading_history, comments, poll_votes, relevance_feedback>>

\* create_comment: 404, or one more comment document
CommentBody(k) ==
    /\ calls[k].pc = "body" /\ calls[k].op = "comment"
    /\ IF calls[k].article \notin DOMAIN articles
       THEN calls' = Done(k, 404, "Article not found") /\ UNCHANGED comments
       ELSE /\ comments[<<calls[k].user, calls[k].article>>] < MaxComments
            /\ comments' = [comments EXCEPT ![<<calls[k].user, calls[k].article>>] = @ + 1]
            /\ calls' = Done(k, 200, "")
    /\ UNCHANGED <<feedVars, fbInFlight, polls, user_sessions, reported, articles, interests,
                   reading_history, poll_votes, article_likes, relevance_feedback>>

\* submit_relevance_feedback up to the return of insert_one; the pop that
\* follows is the step FeedbackInvalidate
FeedbackBody(k) ==
    /\ calls[k].pc = "body" /\ calls[k].op = "feedback"
    /\ calls[k].user \notin fbInFlight
    /\ Len(relevance_feedback) < MaxFeedback
    /\ relevance_feedback' = Append(relevance_feedback,
          [user_id |-> calls[k].user, article_id |-> calls[k].article,
           is_relevant |-> calls[k].flag])
    /\ fbInFlight' = fbInFlight \cup {calls[k].user}
    /\ calls' = Done(k, 200, "")
    /\ UNCHANGED <<feedVars, polls, user_sessions, reported, articles, interests,
                   reading_history, comments, poll_votes, article_likes>>

\* update_reading_time: the upsert
ReadingTimeBody(k) ==
    /\ calls[k].pc = "body" /\ calls[k].op = "reading_time"
    /\ LET u == calls[k].user
           a == calls[k].article
           new == UpsertReadingTime(reading_history, u, a, calls[k].time_spent, calls[k].flag)
       IN  /\ \A h \in new : Abs(h.time_spent) <= MaxSpent
           /\ reading_history' = new
           /\ reported' = Reported(reported, u, a, calls[k].time_spent, calls[k].flag)
    /\ calls' = Done(k, 200, "")
    /\ UNCHANGED <<feedVars, fbInFlight, polls, user_sessions, articles, interests,
                   comments, poll_votes, article_likes, relevance_feedback>>

\* interact_with_article, action "view", up to the return of find_one: 404, or
\* done when a history document exists, or on to insert_one
ViewBody(k) ==
    /\ calls[k].pc = "body" /\ calls[k].op = "view"
    /\ LET u == calls[k].user
           a == calls[k].article
       IN  IF a \notin DOMAIN articles
           THEN calls' = Done(k, 404, "Article not found") /\ UNCHANGED reported
           ELSE IF HistoryDoc(u, a) # {}
           THEN calls' = Done(k, 200, "") /\ reported' = Viewed(reported, u, a)
           ELSE calls' = [calls EXCEPT ![k].pc = "insert"] /\ UNCHANGED reported
    /\ UNCHANGED <<feedVars, fbInFlight, polls, user_sessions, dbVars>>

\* variant: no unique index on reading_history
HistoryKeyTaken_noindex(history, u, a) == FALSE

\* the unique index on (user_id, article_id) created in lifespan: a second
\* document with the same key is refused (DuplicateKeyError)
HistoryKeyTaken(history, u, a) ==
    \E h \in history : h.user_id = u /\ h.article_id = a

\* await db.reading_history.insert_one(history_doc): the exception is not
\* caught, the call ends with an error response
ViewInsert(k) ==
    /\ calls[k].pc = "insert" /\ calls[k].op = "view"
    /\ LET u == calls[k].user
           a == calls[k].article
       IN  IF HistoryKeyTaken(reading_history, u, a)
           THEN calls' = Done(k, 500, "DuplicateKeyError")
                /\ UNCHANGED <<reading_history, reported>>
           ELSE /\ reading_history' = reading_history \cup
                      {[history_id |-> k, user_id |-> u, article_id |-> a,
                        time_spent |-> 0, completed |-> FALSE]}
                /\ reported' = Viewed(reported, u, a)
                /\ calls' = Done(k, 200, "")
    /\ UNCHANGED <<feedVars, fbInFlight, polls, user_sessions, articles, interests,
                   comments, poll_votes, article_likes, relevance_feedback>>

\* vote_poll up to the return of the find_one on poll_votes: the poll, its
\* age, the option, then the user's existing vote
VoteBody(k) ==
    /\ calls[k].pc = "body" /\ calls[k].op = "vote"
    /\ LET c == calls[k]
       IN  calls' =
              IF c.poll \notin PollIds THEN Done(k, 404, "Poll not found")
              ELSE IF PollExpired(c.poll, now) THEN Done(k, 400, "Poll has expired")
              ELSE IF c.option \notin PollOptions THEN Done(k, 400, "Invalid option")
              ELSE IF \E v \in poll_votes : v.poll_id = c.poll /\ v.user_id = c.user
              THEN Done(k, 400, "Already voted")
              ELSE [calls EXCEPT ![k].pc = "insert"]
    /\ UNCHANGED <<feedVars, fbInFlight, polls, user_sessions, reported, dbVars>>

\* variant: no unique index on poll_votes
VoteKeyTaken_noindex(votes, p, u) == FALSE

\* the unique index on (poll_id, user_id) created in lifespan
VoteKeyTaken(votes, p, u) == \E v \in votes : v.poll_id = p /\ v.user_id = u

\* variant: the DuplicateKeyError is swallowed and the call goes on to count
VoteInsert_swallowed(k) ==
    /\ calls[k].pc = "insert" /\ calls[k].op = "vote"
    /\ LET c == calls[k]
       IN  /\ poll_votes' =
                 IF VoteKeyTaken(poll_votes, c.poll, c.user) THEN poll_votes
                 ELSE poll_votes \cup {[vote_id |-> k, poll_id |-> c.poll,
                                        user_id |-> c.user, option |-> c.option]}
           /\ calls' = [calls EXCEPT ![k].pc = "count"]
    /\ UNCHANGED <<feedVars, fbInFlight, polls, user_sessions, reported, articles, interests,
                   reading_history, comments, article_likes, relevance_feedback>>

\* await db.poll_votes.insert_one(vote_doc): the exception is not caught
VoteInsert(k) ==
    /\ calls[k].pc = "insert" /\ calls[k].op = "vote"
    /\ LET c == calls[k]
       IN  IF VoteKeyTaken(poll_votes, c.poll, c.user)
           THEN calls' = Done(k, 500, "DuplicateKeyError") /\ UNCHANGED poll_votes
           ELSE /\ poll_votes' = poll_votes \cup
                      {[vote_id |-> k, poll_id |-> c.poll, user_id |-> c.user,
                        option |-> c.option]}
                /\ calls' = [calls EXCEPT ![k].pc = "count"]
    /\ UNCHANGED <<feedVars, fbInFlight, polls, user_sessions, reported, articles, interests,
                   reading_history, comments, article_likes, relevance_feedback>>

\* await db.polls.update_one($inc votes.<option>), then the poll is read back
VoteCount(k) ==
    /\ calls[k].pc = "count" /\ calls[k].op = "vote"
    /\ polls' = [polls EXCEPT ![calls[k].poll][calls[k].option] = @ + 1]
    /\ calls' = Done(k, 200, "")
    /\ UNCHANGED <<feedVars, fbInFlight, user_sessions, reported, dbVars>>

\* the response is sent; the slot is free again
Return(k) ==
    /\ calls[k].pc = "returned"
    /\ calls' = [calls EXCEPT ![k] = IdleCall]
    /\ UNCHANGED <<feedVars, fbInFlight, polls, user_sessions, reported, dbVars>>

-----------------------------------------------------------------------------
(* GET /articles: get_articles and, inside it, _get_user_affinity_scores *)

\* variant: the TTL taken in minutes (5) and compared with seconds
CacheFresh_minutes(cached, t) ==
    cached # NoEntry /\ (t - cached.ts) < AFFINITY_CACHE_TTL_SEC \div 60

\* cached and (time.time() - cached["ts"]) < _AFFINITY_CACHE_TTL_SEC
CacheFresh(cached, t) ==
    cached # NoEntry /\ (t - cached.ts) < AFFINITY_CACHE_TTL_SEC

\* variant: the key is deleted only by a background sweep, so a GET still
\* returns it past its expiry time
RedisGet_noexpiry(store, key, t) ==
    IF store[key] # NoEntry THEN store[key].value ELSE NoEntry

\* redis GET: the value, or nothing once `seconds` have elapsed since SETEX
RedisGet(store, key, t) ==
    IF store[key] # NoEntry /\ t < store[key].exp THEN store[key].value ELSE NoEntry

\* redis SETEX key seconds value
RedisSetex(store, key, seconds, value, t) ==
    [store EXCEPT ![key] = [value |-> value, exp |-> t + seconds]]

\* the cache read at the top of _get_user_affinity_scores: the cached scores,
\* or NoEntry when the function goes on to the queries
CacheLookup(u) ==
    IF redisOn
    THEN LET cached_json == RedisGet(redis, u, now)
         IN  IF cached_json # NoEntry THEN JsonLoads(cached_json) ELSE NoEntry
    ELSE IF CacheFresh(affinity_cache[u], now) THEN affinity_cache[u].scores ELSE NoEntry

\* the request record after the cache read
AfterLookup(rec, u) ==
    LET got == CacheLookup(u)
        seen == [rec EXCEPT
                   !.age = IF lastStore[u] = NoEntry THEN -1 ELSE now - lastStore[u].t,
                   !.inval = lastStore[u] # NoEntry /\ fbDone[u] > lastStore[u].fb,
                   !.stored = IF lastStore[u] = NoEntry THEN EmptyProfile
                              ELSE lastStore[u].scores]
    IN  IF got # NoEntry
        THEN [seen EXCEPT !.pc = "rel", !.affinity = got, !.hit = "hit"]
        ELSE [seen EXCEPT !.pc = "hist", !.hit = "miss", !.fb0 = fbDone[u]]

\* get_articles from its entry to the first await that another coroutine can
\* interleave with: session and user lookup, the query, then either the whole
\* unauthenticated path, or the candidate query followed by the call of
\* _get_user_affinity_scores up to its first await
FeedStart(r, u, q, limit, skip) ==
    /\ req[r].pc = "idle"
    /\ LET user_interests == IF u = NoUser THEN {} ELSE interests[u]
           base == [IdleReq EXCEPT !.user = u, !.q = q, !.limit = limit, !.skip = skip,
                                   !.user_interests = user_interests,
                                   !.entry0 = IF u = NoUser THEN @
                                              ELSE [dict |-> affinity_cache[u],
                                                    redis |-> redis[u]]]
           candidates == Candidates(articles, q)
       IN  req' = [req EXCEPT ![r] =
              IF u = NoUser \/ user_interests = {}
              THEN [base EXCEPT !.pc = "done",
                                !.result = Fallback(articles, q, limit, skip)]
              ELSE IF candidates = <<>>
              THEN [base EXCEPT !.pc = "done", !.result = <<>>]
              ELSE IF redisOn
              THEN [base EXCEPT !.pc = "goc", !.cands = candidates]
              ELSE AfterLookup([base EXCEPT !.cands = candidates], u)]
    /\ UNCHANGED <<now, ticks, redisOn, scoring, opVars, sysVars, dbVars, affinity_cache, redis,
                   fbInFlight, fbDone, lastStore>>

\* await _redis.get(f"affinity:{user_id}") and the test of what it returned
GocCheck(r) ==
    /\ redisOn
    /\ req[r].pc = "goc"
    /\ req' = [req EXCEPT ![r] = AfterLookup(req[r], req[r].user)]
    /\ UNCHANGED <<now, ticks, redisOn, scoring, opVars, sysVars, dbVars, affinity_cache, redis,
                   fbInFlight, fbDone, lastStore>>

\* the locals of _get_user_affinity_scores are gone once it has returned
Returned(rec, scores) ==
    [rec EXCEPT !.pc = "rel", !.affinity = scores,
                !.hd = {}, !.cd = ZeroCounts, !.vd = {}, !.ld = {}, !.fb0 = 0]

\* variant: the likes of a stale entry of the in-process dict are added to
\* the new ones instead of being replaced
StoreScores_accumulating(r, rec, scores) ==
    LET u == rec.user
        stale == affinity_cache[u]
        sum == IF stale = NoEntry THEN scores
               ELSE [scores EXCEPT !.likes =
                        [c \in DOMAIN scores.likes |->
                            RAdd(scores.likes[c], Get(stale.scores.likes, c))]]
    IN  IF redisOn
        THEN /\ req' = [req EXCEPT ![r] = [rec EXCEPT !.pc = "write", !.affinity = sum]]
             /\ UNCHANGED <<affinity_cache, lastStore>>
        ELSE /\ affinity_cache' = [affinity_cache EXCEPT ![u] = [scores |-> sum, ts |-> now]]
             /\ lastStore' = [lastStore EXCEPT ![u] =
                                 [scores |-> sum, t |-> now, fb |-> fbDone[u]]]
             /\ req' = [req EXCEPT ![r] = Returned(rec, sum)]

\* the end of _get_user_affinity_scores once scores is known: with Redis the
\* SETEX is awaited (GocWrite); without it the dict is written and the
\* function returns in the same step
StoreScores(r, rec, scores) ==
    LET u == rec.user
    IN  IF redisOn
        THEN /\ req' = [req EXCEPT ![r] = [rec EXCEPT !.pc = "write", !.affinity = scores]]
             /\ UNCHANGED <<affinity_cache, lastStore>>
        ELSE /\ affinity_cache' = [affinity_cache EXCEPT ![u] = [scores |-> scores, ts |-> now]]
             /\ lastStore' = [lastStore EXCEPT ![u] =
                                 [scores |-> scores, t |-> now, fb |-> fbDone[u]]]
             /\ req' = [req EXCEPT ![r] = Returned(rec, scores)]

\* history_docs = await db.reading_history.find(...), the join with
\* db.articles, and the early return when there are no documents
GocHistory(r) ==
    /\ req[r].pc = "hist"
    /\ LET u == req[r].user
           history_docs == {[article_id |-> h.article_id, time_spent |-> h.time_spent,
                             completed |-> h.completed] :
                               h \in {x \in reading_history : x.user_id = u}}
           rec == [req[r] EXCEPT !.hd = history_docs, !.reads = @ + 1]
       IN  IF history_docs = {}
           THEN StoreScores(r, rec, EmptyProfile)
           ELSE /\ req' = [req EXCEPT ![r] = [rec EXCEPT !.pc = "comments"]]
                /\ UNCHANGED <<affinity_cache, lastStore>>
    /\ UNCHANGED <<now, ticks, redisOn, scoring, opVars, sysVars, dbVars, redis, fbInFlight, fbDone>>

\* comment_docs = await db.comments.find(...) and the join with db.articles
GocComments(r) ==
    /\ req[r].pc = "comments"
    /\ req' = [req EXCEPT ![r] =
          [req[r] EXCEPT !.pc = "votes", !.reads = @ + 1,
                         !.cd = [a \in ArticleIds |-> comments[<<req[r].user, a>>]]]]
    /\ UNCHANGED <<now, ticks, redisOn, scoring, opVars, sysVars, dbVars, affinity_cache, redis,
                   fbInFlight, fbDone, lastStore>>

\* vote_docs = await db.poll_votes.find(...) and the joins with db.polls and
\* db.articles
GocVotes(r) ==
    /\ req[r].pc = "votes"
    /\ req' = [req EXCEPT ![r] =
          [req[r] EXCEPT !.pc = "likes", !.reads = @ + 1,
                         !.vd = {[poll_id |-> v.poll_id] :
                                   v \in {x \in poll_votes : x.user_id = req[r].user}}]]
    /\ UNCHANGED <<now, ticks, redisOn, scoring, opVars, sysVars, dbVars, affinity_cache, redis,
                   fbInFlight, fbDone, lastStore>>

\* like_docs = await db.article_likes.find(...), the join with db.articles,
\* the scores dict and the cache write
GocLikes(r) ==
    /\ req[r].pc = "likes"
    /\ LET like_docs == {[article_id |-> d.article_id] :
                            d \in {x \in article_likes : x.user_id = req[r].user}}
           rec == [req[r] EXCEPT !.ld = like_docs, !.reads = @ + 1]
       IN  StoreScores(r, rec,
              ComputeScores(rec.hd, rec.cd, rec.vd, rec.ld, articles))
    /\ UNCHANGED <<now, ticks, redisOn, scoring, opVars, sysVars, dbVars, redis, fbInFlight, fbDone>>

\* variant: the likes of the value already under the key are added to the
\* new ones before the SETEX
GocWrite_accumulating(r) ==
    /\ redisOn
    /\ req[r].pc = "write"
    /\ LET u == req[r].user
           held == redis[u]
           scores == IF held = NoEntry THEN req[r].affinity
                     ELSE [req[r].affinity EXCEPT !.likes =
                              [c \in DOMAIN req[r].affinity.likes |->
                                  RAdd(req[r].affinity.likes[c],
                                       Get(JsonLoads(held.value).likes, c))]]
       IN  /\ redis' = RedisSetex(redis, u, 300, JsonDumps(scores), now)
           /\ lastStore' = [lastStore EXCEPT ![u] =
                               [scores |-> scores, t |-> now, fb |-> fbDone[u]]]
           /\ req' = [req EXCEPT ![r] = Returned(req[r], scores)]
    /\ UNCHANGED <<now, ticks, redisOn, scoring, opVars, sysVars, dbVars, affinity_cache, fbInFlight, fbDone>>

\* await _redis.setex(f"affinity:{user_id}", 300, json.dumps(scores)); return
GocWrite(r) ==
    /\ redisOn
    /\ req[r].pc = "write"
    /\ LET u == req[r].user
           scores == req[r].affinity
       IN  /\ redis' = RedisSetex(redis, u, 300, JsonDumps(scores), now)
           /\ lastStore' = [lastStore EXCEPT ![u] =
                               [scores |-> scores, t |-> now, fb |-> fbDone[u]]]
           /\ req' = [req EXCEPT ![r] = Returned(req[r], scores)]
    /\ UNCHANGED <<now, ticks, redisOn, scoring, opVars, sysVars, dbVars, affinity_cache, fbInFlight, fbDone>>

\* the user's relevance_feedback documents, in insertion order
RECURSIVE UserFeedback(_, _)
UserFeedback(docs, u) ==
    IF docs = <<>> THEN <<>>
    ELSE IF Head(docs).user_id = u
         THEN <<Head(docs)>> \o UserFeedback(Tail(docs), u)
         ELSE UserFeedback(Tail(docs), u)

\* variant: the relevance query is skipped when the profile came from the
\* cache
FeedFinish_cached(r, wild) ==
    /\ req[r].pc = "rel"
    /\ wild \subseteq 1..Len(req[r].cands)
    /\ LET rec == req[r]
           relevance_docs == IF rec.hit = "hit" THEN <<>>
                             ELSE Take(UserFeedback(relevance_feedback, rec.user),
                                       RELEVANCE_DOCS_LIMIT)
           relevance_by_category == RelevanceByCategory(rec.cands, relevance_docs, articles)
           scored == [i \in 1..Len(rec.cands) |->
                         <<_score_article(articles[rec.cands[i]], rec.user_interests,
                                          rec.affinity, relevance_by_category, now,
                                          i \in wild),
                           rec.cands[i]>>]
           top == Ranked(rec.cands, articles, rec.user_interests, rec.affinity,
                         relevance_by_category, now, wild)
       IN  req' = [req EXCEPT ![r] =
              [rec EXCEPT !.pc = "done", !.scored = scored,
                          !.relevance_by_category = relevance_by_category,
                          !.result = [i \in 1..Len(top) |-> top[i][2]]]]
    /\ UNCHANGED <<now, ticks, redisOn, scoring, opVars, sysVars, dbVars, affinity_cache, redis,
                   fbInFlight, fbDone, lastStore>>

\* the rest of get_articles: relevance_docs, cat_map, relevance_by_category,
\* now, the scores, the sort and the slice
FeedFinish(r, wild) ==
    /\ req[r].pc = "rel"
    /\ wild \subseteq 1..Len(req[r].cands)
    /\ LET rec == req[r]
           relevance_docs == Take(UserFeedback(relevance_feedback, rec.user),
                                  RELEVANCE_DOCS_LIMIT)
           relevance_by_category == RelevanceByCategory(rec.cands, relevance_docs, articles)
           scored == [i \in 1..Len(rec.cands) |->
                         <<_score_article(articles[rec.cands[i]], rec.user_interests,
                                          rec.affinity, relevance_by_category, now,
                                          i \in wild),
                           rec.cands[i]>>]
           top == Ranked(rec.cands, articles, rec.user_interests, rec.affinity,
                         relevance_by_category, now, wild)
       IN  req' = [req EXCEPT ![r] =
              [rec EXCEPT !.pc = "done", !.scored = scored,
                          !.relevance_by_category = relevance_by_category,
                          !.result = [i \in 1..Len(top) |-> top[i][2]]]]
    /\ UNCHANGED <<now, ticks, redisOn, scoring, opVars, sysVars, dbVars, affinity_cache, redis,
                   fbInFlight, fbDone, lastStore>>

\* the exception leaves _get_user_affinity_scores and get_articles, neither
\* of which catches it: the request ends with an error response
Raised(rec, await) ==
    [rec EXCEPT !.pc = "failed", !.error = await,
                !.hd = {}, !.cd = ZeroCounts, !.vd = {}, !.ld = {},
                !.affinity = EmptyProfile, !.fb0 = 0]

\* await _redis.get(...) raises (the store is down or unreachable)
GocCheckFails(r) ==
    /\ redisOn
    /\ req[r].pc = "goc"
    /\ req' = [req EXCEPT ![r] = Raised(req[r], "redis")]
    /\ UNCHANGED <<now, ticks, redisOn, scoring, opVars, sysVars, dbVars, affinity_cache, redis,
                   fbInFlight, fbDone, lastStore>>

\* await _redis.setex(...) raises
GocWriteFails(r) ==
    /\ redisOn
    /\ req[r].pc = "write"
    /\ req' = [req EXCEPT ![r] = Raised(req[r], "redis")]
    /\ UNCHANGED <<now, ticks, redisOn, scoring, opVars, sysVars, dbVars, affinity_cache, redis,
                   fbInFlight, fbDone, lastStore>>

\* variant: a failed read is taken as "no documents" and the empty profile is
\* stored and returned
GocReadFails_default(r) ==
    /\ req[r].pc \in {"hist", "comments", "votes", "likes"}
    /\ StoreScores(r, [req[r] EXCEPT !.error = "store"], EmptyProfile)
    /\ UNCHANGED <<now, ticks, redisOn, scoring, opVars, sysVars, dbVars, redis, fbInFlight, fbDone>>

\* one of the awaited db.*.find(...).to_list(...) of _get_user_affinity_scores
\* raises: nothing after it runs, in particular no cache write
GocReadFails(r) ==
    /\ req[r].pc \in {"hist", "comments", "votes", "likes"}
    /\ req' = [req EXCEPT ![r] = Raised(req[r], "store")]
    /\ UNCHANGED <<now, ticks, redisOn, scoring, opVars, sysVars, dbVars, affinity_cache, redis,
                   fbInFlight, fbDone, lastStore>>

\* variant: the profile computed so far is written while the cancellation
\* unwinds (a cache write in a finally block)
Cancel_flush(r) ==
    /\ req[r].pc \in {"goc", "hist", "comments", "votes", "likes"}
    /\ LET rec == req[r]
           partial == ComputeScores(rec.hd, rec.cd, rec.vd, rec.ld, articles)
       IN  /\ affinity_cache' = [affinity_cache EXCEPT ![rec.user] =
                                    [scores |-> partial, ts |-> now]]
           /\ req' = [req EXCEPT ![r] = Raised(rec, "cancelled")]
    /\ UNCHANGED <<now, ticks, redisOn, scoring, opVars, sysVars, dbVars, redis,
                   fbInFlight, fbDone, lastStore>>

\* the request's task is cancelled (the client went away) while it waits in
\* one of the awaits before the cache write: CancelledError is raised there
\* and nothing after it runs
Cancel(r) ==
    /\ req[r].pc \in {"goc", "hist", "comments", "votes", "likes"}
    /\ req' = [req EXCEPT ![r] = Raised(req[r], "cancelled")]
    /\ UNCHANGED <<now, ticks, redisOn, scoring, opVars, sysVars, dbVars, affinity_cache, redis,
                   fbInFlight, fbDone, lastStore>>

\* the task is cancelled while it waits in await _redis.setex(...): the
\* command has reached the server or it has not
CancelInWrite(r) ==
    /\ redisOn
    /\ req[r].pc = "write"
    /\ LET u == req[r].user
           scores == req[r].affinity
       IN  \/ /\ redis' = RedisSetex(redis, u, 300, JsonDumps(scores), now)
              /\ lastStore' = [lastStore EXCEPT ![u] =
                                  [scores |-> scores, t |-> now, fb |-> fbDone[u]]]
           \/ UNCHANGED <<redis, lastStore>>
    /\ req' = [req EXCEPT ![r] = Raised(req[r], "cancelled in write")]
    /\ UNCHANGED <<now, ticks, redisOn, scoring, opVars, sysVars, dbVars, affinity_cache,
                   fbInFlight, fbDone>>

\* the response is sent; the slot is free again
FeedReturn(r) ==
    /\ req[r].pc \in {"done", "failed"}
    /\ req' = [req EXCEPT ![r] = IdleReq]
    /\ UNCHANGED <<now, ticks, redisOn, scoring, opVars, sysVars, dbVars, affinity_cache, redis,
                   fbInFlight, fbDone, lastStore>>

-----------------------------------------------------------------------------
(* Specification of the cache protocol: one user with declared interests,   *)
(* feed requests one after the other, a few writers, feedback, and a clock  *)
(* that steps around the TTL.                                               *)

TickSteps == {1, AFFINITY_CACHE_TTL_SEC - 1}

SerialReqs == {"r1"}

Next ==
    \/ \E d \in TickSteps : Tick(d)
    \/ View("u1", 3)
    \/ Like("u1", 1)
    \/ SubmitFeedback("u1", 3, TRUE)
    \/ FeedbackInvalidate("u1")
    \/ \E r \in SerialReqs : FeedStart(r, "u1", NoQuery, 20, 0)
    \/ \E r \in SerialReqs : GocCheck(r)
    \/ \E r \in SerialReqs : GocHistory(r)
    \/ \E r \in SerialReqs : GocComments(r)
    \/ \E r \in SerialReqs : GocVotes(r)
    \/ \E r \in SerialReqs : GocLikes(r)
    \/ \E r \in SerialReqs : GocWrite(r)
    \/ \E r \in SerialReqs : FeedFinish(r, {})
    \/ \E r \in SerialReqs : FeedReturn(r)

Spec == Init /\ [][Next]_vars

-----------------------------------------------------------------------------
(* Properties of the affinity cache *)

\* C1 (as claimed): for either backend, once user U has completed a
\* relevance-feedback submission, no get_or_compute(U) is served from a cache
\* entry that was stored before that submission: the first call after the
\* feedback runs the Aggregator again, even inside the 300-second window.
C1_InvalidationEitherBackend ==
    \A r \in Reqs : req[r].hit = "hit" => ~req[r].inval

\* C2: a get_or_compute(U) that starts less than 300 seconds after the
\* latest store for U, with no feedback submission by U completed since,
\* is a hit: it performs no document-store read and returns exactly the
\* stored profile, whatever U's history, comments, votes and likes are now.
C2_CacheHit ==
    \A r \in Reqs :
        (/\ req[r].hit # "none"
         /\ req[r].age \in 0..(AFFINITY_CACHE_TTL_SEC - 1)
         /\ ~req[r].inval)
        => /\ req[r].hit = "hit"
           /\ req[r].reads = 0
           /\ req[r].affinity = req[r].stored

\* C2 witness: a hit at age 299 on a stored empty profile although the user
\* has reading history by now
C2_Witness ==
    \E r \in Reqs :
        /\ req[r].hit = "hit"
        /\ req[r].age = AFFINITY_CACHE_TTL_SEC - 1
        /\ ~req[r].inval
        /\ req[r].stored = EmptyProfile
        /\ \E h \in reading_history : h.user_id = req[r].user

\* C3: on both backends a call is a hit only when the latest store is less
\* than 300 seconds old (no store, or age >= 300, is a miss), and a call that
\* missed ends by having read the document store and by writing the profile
\* it returns with the current time (dict) or a 300-second expiry (Redis).
C3_Expiry ==
    /\ [](\A r \in Reqs :
            req[r].hit = "hit" => req[r].age \in 0..(AFFINITY_CACHE_TTL_SEC - 1))
    /\ [][\A r \in Reqs :
            (req[r].pc # "rel" /\ req'[r].pc = "rel" /\ req'[r].hit = "miss")
            => /\ req'[r].reads > 0
               /\ IF redisOn
                  THEN redis'[req[r].user] =
                         [value |-> JsonDumps(req'[r].affinity),
                          exp |-> now + AFFINITY_CACHE_TTL_SEC]
                  ELSE affinity_cache'[req[r].user] =
                         [scores |-> req'[r].affinity, ts |-> now]]_vars

\* C3 witness: with Redis, a call at age exactly 300 missed, recomputed and
\* has returned from the store
C3_Witness ==
    \E r \in Reqs :
        /\ redisOn
        /\ req[r].hit = "miss"
        /\ req[r].age = AFFINITY_CACHE_TTL_SEC
        /\ req[r].pc = "rel"

-----------------------------------------------------------------------------
(* Specification of the Aggregator as a function of the collections: the     *)
(* writers run first, in any order and number; then requests of user u1 run  *)
(* one after the other on the collections as they are.                       *)

\* nothing has been computed or requested yet
Quiet ==
    /\ \A r \in Reqs : req[r].pc = "idle"
    /\ \A u \in Users : lastStore[u] = NoEntry

ReportedSeconds == {-30, 30, 60}

NextAgg ==
    \/ Quiet /\ View("u1", 3)
    \/ Quiet /\ \E t \in ReportedSeconds, c \in BOOLEAN : ReadingTime("u1", 1, t, c)
    \/ Quiet /\ \E a \in {1, 2} : Comment("u1", a)
    \/ Quiet /\ Vote("u1", "p1")
    \/ Quiet /\ Like("u1", 3)
    \/ \E r \in SerialReqs : FeedStart(r, "u1", NoQuery, 20, 0)
    \/ \E r \in SerialReqs : GocCheck(r)
    \/ \E r \in SerialReqs : GocHistory(r)
    \/ \E r \in SerialReqs : GocComments(r)
    \/ \E r \in SerialReqs : GocVotes(r)
    \/ \E r \in SerialReqs : GocLikes(r)
    \/ \E r \in SerialReqs : GocWrite(r)
    \/ \E r \in SerialReqs : FeedFinish(r, {})
    \/ \E r \in SerialReqs : FeedReturn(r)

SpecAgg == Init /\ [][NextAgg]_vars

-----------------------------------------------------------------------------
(* Properties of the Aggregator (under SpecAgg the collections do not change *)
(* while a request is running, so a computed profile can be compared with    *)
(* the collections of the same state)                                        *)

\* the request has a profile that the Aggregator computed for it
Computed(r) == req[r].pc \in {"rel", "done"} /\ req[r].hit = "miss"

HasHistory(u) == \E h \in reading_history : h.user_id = u

\* number of comments of user u on articles of category c
RECURSIVE CountIn(_, _, _)
CountIn(u, c, S) ==
    IF S = {} THEN 0
    ELSE LET a == CHOOSE x \in S : TRUE
         IN  (IF CatOf(articles, a) = c THEN comments[<<u, a>>] ELSE 0)
             + CountIn(u, c, S \ {a})

CommentsIn(u, c) == CountIn(u, c, ArticleIds)

VotedIn(u, c) ==
    \E v \in poll_votes : v.user_id = u /\ CatOf(articles, PollArticle[v.poll_id]) = c

LikedIn(u, c) ==
    \E d \in article_likes : d.user_id = u /\ CatOf(articles, d.article_id) = c

\* C4 (as claimed): for a user without reading history compute returns empty
\* completion and engagement maps and still the comments, poll_votes and
\* likes maps: a category the user commented in has a comments entry, a
\* category the user voted in has poll_votes = 5, a category the user liked
\* in has likes = 5.
C4_NoHistoryStillOtherSignals ==
    \A r \in Reqs :
        (Computed(r) /\ ~HasHistory(req[r].user))
        => /\ req[r].affinity.completion = EmptyMap
           /\ req[r].affinity.engagement = EmptyMap
           /\ \A c \in Categories :
                /\ CommentsIn(req[r].user, c) > 0 => c \in DOMAIN req[r].affinity.comments
                /\ VotedIn(req[r].user, c)
                     => Get(req[r].affinity.poll_votes, c) = RInt(5)
                /\ LikedIn(req[r].user, c)
                     => Get(req[r].affinity.likes, c) = RInt(5)

\* C5 (as claimed, for users who have reading history so that the early
\* return of C4 plays no part): comments[c] is a function of n, the user's
\* number of comments on articles of category c: absent for 0, 3 for 1, 6 for
\* 2, 10 for 3 or more, however the comments are spread over articles.
C5_CommentsByCategoryTotal ==
    \A r \in Reqs :
        (Computed(r) /\ HasHistory(req[r].user))
        => \A c \in Categories :
              LET n == CommentsIn(req[r].user, c)
                  m == req[r].affinity.comments
              IN  /\ n = 0 => c \notin DOMAIN m
                  /\ n = 1 => Get(m, c) = RInt(3)
                  /\ n = 2 => Get(m, c) = RInt(6)
                  /\ n >= 3 => Get(m, c) = RInt(10)

InRange(x, lo, hi) == RLeq(RInt(lo), x) /\ RLeq(x, RInt(hi))

WithinBounds(p) ==
    /\ \A c \in DOMAIN p.completion : InRange(p.completion[c], 0, 20)
    /\ \A c \in DOMAIN p.engagement : InRange(p.engagement[c], 0, 20)
    /\ \A c \in DOMAIN p.comments : InRange(p.comments[c], 0, 10)
    /\ \A c \in DOMAIN p.poll_votes : p.poll_votes[c] = RInt(5)
    /\ \A c \in DOMAIN p.likes : p.likes[c] = RInt(5)

\* C6 (as claimed): every profile the Aggregator produces, after any sequence
\* of view, reading-time, comment, vote and like operations, has 0 <=
\* completion[c] <= 20, 0 <= engagement[c] <= 20, 0 <= comments[c] <= 10,
\* poll_votes[c] = 5 and likes[c] = 5 for every category present.
C6_SubScoreBounds ==
    \A r \in Reqs : Computed(r) => WithinBounds(req[r].affinity)

-----------------------------------------------------------------------------
(* Specification of the Feed Assembler: db.articles holds a generated table  *)
(* of up to CANDIDATE_LIMIT + 2 articles; anonymous callers, a user without  *)
(* interests (u2) and a user with interests (u1) request the feed with       *)
(* various filters, page sizes and skips; wildcard draws vary.               *)

CategoryCycle == <<"Technology", "Politics", NoCategory>>

\* n articles, article i published i half-hours before StartTime
GeneratedArticles(n) ==
    [i \in 1..n |->
        [category |-> CategoryCycle[(i % 3) + 1],
         subcategory |-> IF i % 2 = 0 THEN "AI" ELSE "India",
         is_developing |-> (i % 4 = 0),
         reading_time_sec |-> 60,
         published_at |-> <<StartTime - i * 1800>>]]

FeedSizes == {0, 4, TOP_N + 1, CANDIDATE_LIMIT + 2}

FeedQueries ==
    {NoQuery,
     [NoQuery EXCEPT !.category = "Technology"],
     [NoQuery EXCEPT !.category = "Sports"],
     [NoQuery EXCEPT !.subcategory = "AI", !.developing = {FALSE}]}

PageSizes == {3, 20}

Skips == {0, 2}

\* outcomes of the wildcard draws over n candidates
WildDraws(n) == {{}, {i \in 1..n : i % 2 = 0}, {i \in 1..n : i > TOP_N}}

InitFeed ==
    /\ redisOn = FALSE
    /\ now = StartTime
    /\ ticks = 0
    /\ articles \in {GeneratedArticles(n) : n \in FeedSizes}
    /\ interests = [u \in Users |-> IF u = "u1" THEN {"Technology"} ELSE {}]
    /\ reading_history = {}
    /\ comments = [k \in Users \X ArticleIds |-> 0]
    /\ poll_votes = {}
    /\ article_likes = {}
    /\ relevance_feedback = <<>>
    /\ affinity_cache = [u \in Users |-> NoEntry]
    /\ redis = [u \in Users |-> NoEntry]
    /\ req = [r \in Reqs |-> IdleReq]
    /\ scoring = NoScoring
    /\ fbInFlight = {}
    /\ fbDone = [u \in Users |-> 0]
    /\ lastStore = [u \in Users |-> NoEntry]
    /\ InitOps
    /\ InitSys

NextFeed ==
    \/ Quiet /\ View("u1", 2)
    \/ Quiet /\ Like("u1", 2)
    \/ \E r \in SerialReqs, u \in Users \cup {NoUser}, q \in FeedQueries,
          limit \in PageSizes, skip \in Skips : FeedStart(r, u, q, limit, skip)
    \/ \E r \in SerialReqs : GocHistory(r)
    \/ \E r \in SerialReqs : GocComments(r)
    \/ \E r \in SerialReqs : GocVotes(r)
    \/ \E r \in SerialReqs : GocLikes(r)
    \/ \E r \in SerialReqs : \E wild \in WildDraws(Len(req[r].cands)) : FeedFinish(r, wild)
    \/ \E r \in SerialReqs : FeedReturn(r)

SpecFeed == InitFeed /\ [][NextFeed]_vars

-----------------------------------------------------------------------------
(* Properties of the Feed Assembler (db.articles does not change under       *)
(* SpecFeed)                                                                 *)

\* the articles that satisfy the request's filters
Matching(q) ==
    {a \in DOMAIN articles :
        /\ (q.category \in {NoFilter, ""} \/ articles[a].category = q.category)
        /\ (q.subcategory \in {NoFilter, ""} \/ articles[a].subcategory = q.subcategory)
        /\ (q.developing = {} \/ articles[a].is_developing \in q.developing)}

\* number of matching articles published after article a
NewerMatching(q, a) ==
    Cardinality({b \in Matching(q) :
                    articles[b].published_at[1] > articles[a].published_at[1]})

Personalized(r) == req[r].user # NoUser /\ req[r].user_interests # {}

Min(a, b) == IF a < b THEN a ELSE b

\* the score computed for candidate a in request r
ScoreIn(r, a) == (CHOOSE p \in SeqToSet(req[r].scored) : p[2] = a)[1]

\* C7: on the personalized path the result has min(10, k) elements, all
\* different and all among the k <= 50 most recent matching articles, in
\* non-increasing order of the scores computed in the request, and no
\* candidate left out scored higher than a returned one; limit and skip play
\* no part.
C7_PersonalizedTopTen ==
    \A r \in Reqs :
        (req[r].pc = "done" /\ Personalized(r)) =>
            LET K == {a \in Matching(req[r].q) : NewerMatching(req[r].q, a) < CANDIDATE_LIMIT}
                res == req[r].result
            IN  /\ Len(res) = Min(TOP_N, Cardinality(K))
                /\ \A i \in 1..Len(res) : res[i] \in K
                /\ \A i, j \in 1..Len(res) : i < j =>
                      /\ res[i] # res[j]
                      /\ RLeq(ScoreIn(r, res[j]), ScoreIn(r, res[i]))
                /\ \A a \in K \ SeqToSet(res) : \A i \in 1..Len(res) :
                      RLeq(ScoreIn(r, a), ScoreIn(r, res[i]))

\* C7 witness: more than 50 articles match, 10 are returned, and they are not
\* simply the 10 most recent, although the request asked for 3 after skipping 2
C7_Witness ==
    \E r \in Reqs :
        /\ req[r].pc = "done" /\ Personalized(r)
        /\ Cardinality(Matching(req[r].q)) > CANDIDATE_LIMIT
        /\ Len(req[r].result) = TOP_N
        /\ req[r].result # Take(req[r].cands, TOP_N)
        /\ req[r].limit = 3 /\ req[r].skip = 2

\* C8: for an anonymous caller or a user without declared interests the
\* result is the matching articles in published_at-descending order from
\* position skip + 1 on, at most limit of them; the request computes no score,
\* never looks at the affinity cache, never runs the Aggregator, and leaves
\* both cache backends as they were.
C8_Fallback ==
    /\ [](\A r \in Reqs :
            (req[r].pc = "done" /\ ~Personalized(r)) =>
                LET M == Matching(req[r].q)
                    res == req[r].result
                    rest == IF Cardinality(M) > req[r].skip
                            THEN Cardinality(M) - req[r].skip ELSE 0
                IN  /\ Len(res) = Min(req[r].limit, rest)
                    /\ \A i \in 1..Len(res) :
                          /\ res[i] \in M
                          /\ NewerMatching(req[r].q, res[i]) = req[r].skip + i - 1
                    /\ req[r].scored = <<>>
                    /\ req[r].hit = "none"
                    /\ req[r].reads = 0)
    /\ [][\A r \in Reqs :
            (req'[r].pc = "done" /\ ~Personalized(r)')
            => (affinity_cache' = affinity_cache /\ redis' = redis)]_vars

\* C8 witness: an anonymous request for category Technology with skip 2 and
\* page size 3 that returned a full page, while u1 has a cached profile
C8_Witness ==
    \E r \in Reqs :
        /\ req[r].pc = "done" /\ req[r].user = NoUser
        /\ req[r].q.category = "Technology"
        /\ req[r].skip = 2 /\ Len(req[r].result) = 3
        /\ affinity_cache["u1"] # NoEntry

\* C9: for a user with declared interests, when no article matches the
\* filters the request ends normally with the empty list, and no request
\* returns an article that does not match its filters.
C9_EmptyCandidates ==
    \A r \in Reqs :
        (req[r].user # NoUser /\ req[r].user_interests # {} /\ req[r].pc # "idle") =>
            /\ Matching(req[r].q) = {} => (req[r].pc = "done" /\ req[r].result = <<>>)
            /\ \A i \in 1..Len(req[r].result) : req[r].result[i] \in Matching(req[r].q)

\* C9 witness: u1 asked for category Sports while db.articles holds 52
\* articles, none of them Sports, and got the empty list
C9_Witness ==
    \E r \in Reqs :
        /\ req[r].pc = "done" /\ Personalized(r)
        /\ req[r].q.category = "Sports"
        /\ Cardinality(DOMAIN articles) > CANDIDATE_LIMIT
        /\ req[r].result = <<>>

-----------------------------------------------------------------------------
(* Specification of the Article Scorer: the arguments of one call of         *)
(* _score_article are drawn from the sets below; the call draws the wildcard *)
(* and returns.                                                              *)

\* a dict with the one key c, or the empty dict
OneKey(c, v) == [k \in {c} |-> v]

ScoreCategories == {"Technology", "Politics", NoCategory}

ScoreAges == {3600, 6 * 3600, 6 * 3600 + 1, 24 * 3600, 24 * 3600 + 1}

ScoreInterests == {{}, {"Technology"}}

\* profiles with or without each signal for Technology
ScoreProfiles ==
    {[completion |-> co, engagement |-> en, comments |-> cm, poll_votes |-> pv, likes |-> li] :
        co \in {EmptyMap, OneKey("Technology", RInt(10))},
        en \in {EmptyMap, OneKey("Technology", <<15, 2>>)},
        cm \in {EmptyMap, OneKey("Technology", RInt(10))},
        pv \in {EmptyMap, OneKey("Technology", RInt(5))},
        li \in {EmptyMap, OneKey("Technology", RInt(5))}}

ScoreRelevance ==
    {EmptyMap, OneKey("Technology", RInt(1)), OneKey("Technology", <<2, 5>>),
     OneKey("Technology", <<1, 4>>)}

InitScore ==
    /\ redisOn = FALSE
    /\ now = StartTime
    /\ ticks = 0
    /\ articles = SeedArticles
    /\ interests = [u \in Users |-> IF u = "u1" THEN {"Technology"} ELSE {}]
    /\ reading_history = {}
    /\ comments = [k \in Users \X ArticleIds |-> 0]
    /\ poll_votes = {}
    /\ article_likes = {}
    /\ relevance_feedback = <<>>
    /\ affinity_cache = [u \in Users |-> NoEntry]
    /\ redis = [u \in Users |-> NoEntry]
    /\ req = [r \in Reqs |-> IdleReq]
    /\ fbInFlight = {}
    /\ fbDone = [u \in Users |-> 0]
    /\ lastStore = [u \in Users |-> NoEntry]
    /\ InitOps
    /\ InitSys
    /\ \E c \in ScoreCategories, d \in {<<StartTime - age>> : age \in ScoreAges} \cup {NoDate},
          ui \in ScoreInterests, p \in ScoreProfiles, rel \in ScoreRelevance :
          scoring = [phase |-> "called",
                     article |-> [category |-> c, published_at |-> d],
                     user_interests |-> ui, affinity |-> p,
                     relevance_by_category |-> rel, t |-> StartTime,
                     wildcard |-> FALSE, score |-> RInt(0)]

\* one call of _score_article; wildcard is the outcome of random.random() < 0.20
ScoreCall(wildcard) ==
    /\ scoring.phase = "called"
    /\ scoring' = [scoring EXCEPT
          !.phase = "returned",
          !.wildcard = wildcard,
          !.score = _score_article(scoring.article, scoring.user_interests,
                                   scoring.affinity, scoring.relevance_by_category,
                                   scoring.t, wildcard)]
    /\ UNCHANGED <<now, ticks, redisOn, opVars, sysVars, dbVars, affinity_cache, redis, req,
                   fbInFlight, fbDone, lastStore>>

NextScore == \E wildcard \in BOOLEAN : ScoreCall(wildcard)

SpecScore == InitScore /\ [][NextScore]_vars

-----------------------------------------------------------------------------
(* Properties of the Article Scorer *)

\* a rational that is a whole number, as that number
Whole(x) == x[1] \div x[2]

\* twice the value of a sub-score (every value used above is k/2)
Twice(m, c) == IF c \in DOMAIN m THEN Whole(RMulInt(m[c], 2)) ELSE 0

\* C10: the returned score is the raw sum of: 20 when the article's category
\* is a declared interest; completion, engagement, comments, poll_votes and
\* likes of the category (0 for a missing key); +10 / -10 / 0 from the
\* category's relevance average (above 1/2, below 3/10, else); 10 / 5 / 0 for
\* freshness; and 10 more exactly when the wildcard is on.  Stated in halves
\* of a point, as an integer equality.
C10_ScoreIsRawSum ==
    scoring.phase = "returned" =>
        LET cat == scoring.article.category
            aff == scoring.affinity
            rel == scoring.relevance_by_category
            pub == scoring.article.published_at
            interest == IF cat \in scoring.user_interests THEN 40 ELSE 0
            signals == Twice(aff.completion, cat) + Twice(aff.engagement, cat)
                       + Twice(aff.comments, cat) + Twice(aff.poll_votes, cat)
                       + Twice(aff.likes, cat)
            relevance == IF cat \notin DOMAIN rel THEN 0
                         ELSE IF 2 * rel[cat][1] > rel[cat][2] THEN 20
                         ELSE IF 10 * rel[cat][1] < 3 * rel[cat][2] THEN -20
                         ELSE 0
            freshness == IF pub = NoDate THEN 0
                         ELSE IF scoring.t - pub[1] <= 21600 THEN 20
                         ELSE IF scoring.t - pub[1] <= 86400 THEN 10
                         ELSE 0
            wild == IF scoring.wildcard THEN 20 ELSE 0
        IN  scoring.score[1] * 2 = (interest + signals + relevance + freshness + wild) * scoring.score[2]

\* C10 witness: interests {Technology}, completion[Technology] = 10 and no
\* other signal, a Technology article one hour old, no feedback, wildcard
\* off: the score is 40
C10_Witness ==
    /\ scoring.phase = "returned"
    /\ scoring.user_interests = {"Technology"}
    /\ scoring.affinity = [EmptyProfile EXCEPT !.completion = OneKey("Technology", RInt(10))]
    /\ scoring.article = [category |-> "Technology", published_at |-> <<scoring.t - 3600>>]
    /\ scoring.relevance_by_category = EmptyMap
    /\ ~scoring.wildcard
    /\ scoring.score = RInt(40)

\* the same call on the same article without its published_at
Undated(article) == [article EXCEPT !.published_at = NoDate]

\* C11: with age = now - published_at in seconds, the freshness term of the
\* returned score (the score less the score of the same call on the undated
\* article) is 10 when age <= 21600, 5 when 21600 < age <= 86400 and 0 when
\* age > 86400; an article without a usable date gets 0.
C11_FreshnessBoundaries ==
    scoring.phase = "returned" =>
        LET pub == scoring.article.published_at
            age == scoring.t - pub[1]
            rest == _score_article(Undated(scoring.article), scoring.user_interests,
                                   scoring.affinity, scoring.relevance_by_category,
                                   scoring.t, scoring.wildcard)
            term == IF pub = NoDate THEN 0
                    ELSE IF age <= 21600 THEN 10
                    ELSE IF age <= 86400 THEN 5
                    ELSE 0
        IN  scoring.score = RAdd(rest, RInt(term))

\* the returned call had no signal but freshness, on an article of this age
FreshnessOnly(age, score) ==
    /\ scoring.phase = "returned"
    /\ scoring.user_interests = {} /\ scoring.affinity = EmptyProfile
    /\ scoring.relevance_by_category = EmptyMap /\ ~scoring.wildcard
    /\ scoring.article.published_at = <<scoring.t - age>>
    /\ scoring.score = RInt(score)

\* C11 witness: an article published 6 h and 1 s before now, nothing else
\* contributing: the score is 5
C11_Witness == FreshnessOnly(6 * 3600 + 1, 5)

-----------------------------------------------------------------------------
(* Specification of the relevance roll-up: db.articles holds 52 generated    *)
(* articles (50 in the candidate window), db.relevance_feedback holds n      *)
(* documents of u1 on Technology articles of which the first r are relevant, *)
(* alternately on article 51 (outside the window) and article 3 (inside),    *)
(* with or without documents that must not count for Technology; then u1    *)
(* requests the feed, with or without a category filter.                     *)

\* <<r, n>>: r relevant documents out of n
FeedbackCounts ==
    {<<0, 0>>, <<1, 1>>, <<0, 1>>, <<1, 2>>, <<2, 3>>, <<1, 3>>, <<1, 4>>,
     <<2, 5>>, <<3, 10>>}

FeedbackOn(u, a, is_relevant) ==
    [user_id |-> u, article_id |-> a, is_relevant |-> is_relevant]

\* n documents of u1 on Technology articles, the first r of them relevant
TechnologyFeedback(r, n) ==
    [j \in 1..n |->
        FeedbackOn("u1", IF j % 2 = 1 THEN CANDIDATE_LIMIT + 1 ELSE 3, j <= r)]

\* documents of another user, on an unknown article, twice on a Politics
\* article outside the window, and on an article without a category
OtherFeedback ==
    <<FeedbackOn("u2", 3, TRUE), FeedbackOn("u1", 99, TRUE),
      FeedbackOn("u1", CANDIDATE_LIMIT + 2, FALSE),
      FeedbackOn("u1", CANDIDATE_LIMIT + 2, FALSE), FeedbackOn("u1", 2, TRUE)>>

RelQueries == {NoQuery, [NoQuery EXCEPT !.category = "Technology"]}

InitRel ==
    /\ redisOn = FALSE
    /\ now = StartTime
    /\ ticks = 0
    /\ articles = GeneratedArticles(CANDIDATE_LIMIT + 2)
    /\ interests = [u \in Users |-> IF u = "u1" THEN {"Technology"} ELSE {}]
    /\ reading_history = {}
    /\ comments = [k \in Users \X ArticleIds |-> 0]
    /\ poll_votes = {}
    /\ article_likes = {}
    /\ \E c \in FeedbackCounts, other \in {<<>>, OtherFeedback} :
          relevance_feedback = other \o TechnologyFeedback(c[1], c[2])
    /\ affinity_cache = [u \in Users |-> NoEntry]
    /\ redis = [u \in Users |-> NoEntry]
    /\ req = [r \in Reqs |-> IdleReq]
    /\ scoring = NoScoring
    /\ fbInFlight = {}
    /\ fbDone = [u \in Users |-> 0]
    /\ lastStore = [u \in Users |-> NoEntry]
    /\ InitOps
    /\ InitSys

NextRel ==
    \/ Quiet /\ View("u1", 3)
    \/ Quiet /\ \E a \in {3, CANDIDATE_LIMIT + 1}, b \in BOOLEAN : SubmitFeedback("u1", a, b)
    \/ FeedbackInvalidate("u1")
    \/ \E r \in SerialReqs, q \in RelQueries : FeedStart(r, "u1", q, 20, 0)
    \/ \E r \in SerialReqs : GocHistory(r)
    \/ \E r \in SerialReqs : GocComments(r)
    \/ \E r \in SerialReqs : GocVotes(r)
    \/ \E r \in SerialReqs : GocLikes(r)
    \/ \E r \in SerialReqs : FeedFinish(r, {})
    \/ \E r \in SerialReqs : FeedReturn(r)

SpecRel == InitRel /\ [][NextRel]_vars

-----------------------------------------------------------------------------
(* Properties of the relevance roll-up (under SpecRel neither db.articles    *)
(* nor db.relevance_feedback changes once a request has started)             *)

\* positions of the feedback documents of user u whose article now has the
\* category c
RecordsIn(u, c) ==
    {i \in 1..Len(relevance_feedback) :
        /\ relevance_feedback[i].user_id = u
        /\ relevance_feedback[i].article_id \in DOMAIN articles
        /\ c # NoCategory
        /\ articles[relevance_feedback[i].article_id].category = c}

RelevantIn(u, c) == {i \in RecordsIn(u, c) : relevance_feedback[i].is_relevant}

\* the request has scored its candidates
Scored(r) == req[r].pc = "done" /\ req[r].scored # <<>>

\* C12: for a candidate of category c, with n the number of the user's
\* feedback documents resolved to c and r the relevant ones among them, the
\* relevance term of its score (the score less the score of the same call
\* with no relevance averages) is +10 iff n >= 1 and r/n > 1/2, -10 iff
\* n >= 1 and r/n < 3/10, and 0 otherwise (n = 0, or 3/10 <= r/n <= 1/2).
C12_RelevanceAdjustment ==
    \A q \in Reqs : Scored(q) =>
        \A i \in 1..Len(req[q].cands) :
            LET a == req[q].cands[i]
                c == articles[a].category
                n == Cardinality(RecordsIn(req[q].user, c))
                r == Cardinality(RelevantIn(req[q].user, c))
                term == IF n >= 1 /\ 2 * r > n THEN 10
                        ELSE IF n >= 1 /\ 10 * r < 3 * n THEN -10
                        ELSE 0
                rest == _score_article(articles[a], req[q].user_interests,
                                       req[q].affinity, EmptyMap, now, FALSE)
            IN  req[q].scored[i] = <<RAdd(rest, RInt(term)), a>>

\* C12 witness: 3 of the 10 documents on Technology are relevant, and the
\* Technology candidate 3 got no adjustment, while a Politics candidate with
\* 0 of 2 relevant got -10
C12_Witness ==
    \E q \in Reqs :
        /\ Scored(q)
        /\ Cardinality(RecordsIn(req[q].user, "Technology")) = 10
        /\ Cardinality(RelevantIn(req[q].user, "Technology")) = 3
        /\ Cardinality(RecordsIn(req[q].user, "Politics")) = 2
        /\ \E i, j \in 1..Len(req[q].cands) :
              /\ req[q].cands[i] = 3
              /\ req[q].scored[i][1] =
                    _score_article(articles[3], req[q].user_interests, req[q].affinity,
                                   EmptyMap, now, FALSE)
              /\ req[q].cands[j] = 1
              /\ req[q].scored[j][1] =
                    RAdd(_score_article(articles[1], req[q].user_interests,
                                        req[q].affinity, EmptyMap, now, FALSE), RInt(-10))

\* C13: in a personalized request that scores, relevance_by_category has a
\* key for exactly the categories that at least one of the user's feedback
\* documents resolves to, and its value is (relevant documents) / (documents)
\* over every such document: repeats on one article count each time,
\* documents on articles outside the candidate window or excluded by the
\* request's filters count, documents of other users, on unknown articles or
\* on articles without a category do not.
C13_RelevanceAverage ==
    \A q \in Reqs : Scored(q) =>
        LET u == req[q].user
        IN  req[q].relevance_by_category =
               [c \in {x \in Categories : RecordsIn(u, x) # {}} |->
                   Rat(Cardinality(RelevantIn(u, c)), Cardinality(RecordsIn(u, c)))]

\* C13 witness: an unfiltered request whose window leaves out articles 51
\* and 52; 5 of the 10 Technology documents are on article 51 and the
\* average is 3/10; both Politics documents are on article 52 and the
\* average is 0
C13_Witness ==
    \E q \in Reqs :
        /\ Scored(q)
        /\ SeqToSet(req[q].cands) \cap {CANDIDATE_LIMIT + 1, CANDIDATE_LIMIT + 2} = {}
        /\ Cardinality({i \in RecordsIn(req[q].user, "Technology") :
                           relevance_feedback[i].article_id = CANDIDATE_LIMIT + 1}) = 5
        /\ req[q].relevance_by_category["Technology"] = <<3, 10>>
        /\ {relevance_feedback[i].article_id : i \in RecordsIn(req[q].user, "Politics")}
              = {CANDIDATE_LIMIT + 2}
        /\ req[q].relevance_by_category["Politics"] = <<0, 1>>

-----------------------------------------------------------------------------
(* Specification of failures under a feed request: u1 requests the feed one  *)
(* request after the other, on either cache backend; every awaited Redis     *)
(* command and every awaited read of the Aggregator either returns or        *)
(* raises; the clock can step past the TTL between requests.                 *)

NextFail ==
    \/ Tick(AFFINITY_CACHE_TTL_SEC)
    \/ View("u1", 3)
    \/ \E r \in SerialReqs : FeedStart(r, "u1", NoQuery, 20, 0)
    \/ \E r \in SerialReqs : GocCheck(r)
    \/ \E r \in SerialReqs : GocCheckFails(r)
    \/ \E r \in SerialReqs : GocHistory(r)
    \/ \E r \in SerialReqs : GocComments(r)
    \/ \E r \in SerialReqs : GocVotes(r)
    \/ \E r \in SerialReqs : GocLikes(r)
    \/ \E r \in SerialReqs : GocReadFails(r)
    \/ \E r \in SerialReqs : GocWrite(r)
    \/ \E r \in SerialReqs : GocWriteFails(r)
    \/ \E r \in SerialReqs : FeedFinish(r, {})
    \/ \E r \in SerialReqs : FeedReturn(r)

SpecFail == Init /\ [][NextFail]_vars

-----------------------------------------------------------------------------
(* Properties of a feed request under failures *)

\* C14 (as claimed): when Redis is configured and its GET or SETEX fails, the
\* feed request does not fail: no request ends with an error raised by a
\* Redis command.
C14_CacheStoreFailureIsAMiss ==
    \A r \in Reqs : req[r].error # "redis"

\* C15: a request in which a read of the Aggregator raised has ended with an
\* error and without a feed, and the user's entries in both cache backends are
\* exactly what they were when the request started: nothing (empty, default
\* or partial) was stored.
C15_StoreFailurePropagates ==
    \A r \in Reqs :
        req[r].error = "store" =>
            /\ req[r].pc = "failed"
            /\ req[r].result = <<>>
            /\ affinity_cache[req[r].user] = req[r].entry0.dict
            /\ redis[req[r].user] = req[r].entry0.redis

\* C15 witness: a request that found a stale entry in the dict, read the
\* history, then failed on a later read; the stale entry is still there
C15_Witness ==
    \E r \in Reqs :
        /\ req[r].pc = "failed" /\ req[r].error = "store"
        /\ req[r].reads >= 1
        /\ req[r].entry0.dict # NoEntry
        /\ affinity_cache[req[r].user] = req[r].entry0.dict

-----------------------------------------------------------------------------
(* Specifications of concurrent writers, two calls at a time interleaved at  *)
(* their awaits: SpecOps has the view interaction and reading-time reports   *)
(* of u1 (token s1) on article 1 and on an unknown article; SpecVote has     *)
(* votes of u1 and u2 (token s2) on polls.                                   *)

\* the inputs of a call
Request(op, article, poll, option, time_spent, flag) ==
    [IdleCall EXCEPT !.op = op, !.article = article, !.poll = poll, !.option = option,
                     !.time_spent = time_spent, !.flag = flag]

\* <<token, request>>
OpsRequests ==
    {"s1"} \X {Request("view", 1, "", "", 0, FALSE),
               Request("view", 9, "", "", 0, FALSE),
               Request("reading_time", 1, "", "", 30, TRUE),
               Request("reading_time", 1, "", "", 30, FALSE),
               Request("reading_time", 1, "", "", -30, FALSE),
               Request("reading_time", 9, "", "", 30, TRUE)}

NextOps ==
    \/ \E k \in CallIds, x \in OpsRequests : Enter(k, x[1], x[2])
    \/ \E k \in CallIds : ViewBody(k)
    \/ \E k \in CallIds : ViewInsert(k)
    \/ \E k \in CallIds : ReadingTimeBody(k)
    \/ \E k \in CallIds : Return(k)

SpecOps == Init /\ [][NextOps]_vars

\* <<token, request>>: votes on the open poll p1, with an option the poll does
\* not have, on the expired poll p3 and on an unknown poll
VoteRequests ==
    ({"s1", "s2"} \X {Request("vote", 0, "p1", "yes", 0, FALSE),
                      Request("vote", 0, "p1", "no", 0, FALSE)})
    \cup
    ({"s1"} \X {Request("vote", 0, "p1", "maybe", 0, FALSE),
                Request("vote", 0, "p3", "yes", 0, FALSE),
                Request("vote", 0, "p9", "yes", 0, FALSE)})

NextVote ==
    \/ \E k \in CallIds, x \in VoteRequests : Enter(k, x[1], x[2])
    \/ \E k \in CallIds : VoteBody(k)
    \/ \E k \in CallIds : VoteInsert(k)
    \/ \E k \in CallIds : VoteCount(k)
    \/ \E k \in CallIds : Return(k)

SpecVote == Init /\ [][NextVote]_vars

-----------------------------------------------------------------------------
(* Properties of the writers *)

\* C16: at every moment there is at most one reading-history document per
\* (user, article); once a view or a reading-time report of U on A has
\* completed there is exactly one, its time_spent is the sum of the values
\* reported by the completed reports and its completed flag is the flag of
\* the latest of them (false when there was none).
C16_HistoryIsAFold ==
    \A u \in Users, a \in ArticleIds :
        /\ Cardinality(HistoryDoc(u, a)) <= 1
        /\ reported[<<u, a>>].any =>
              /\ Cardinality(HistoryDoc(u, a)) = 1
              /\ \A h \in HistoryDoc(u, a) :
                    /\ h.time_spent = reported[<<u, a>>].sum
                    /\ h.completed = reported[<<u, a>>].last

\* C16 witness: a view found no document, a report of 30 seconds (completed)
\* created it meanwhile, and the view's insert was refused: one document,
\* 30 seconds, completed
C16_Witness ==
    \E k \in CallIds :
        /\ calls[k].op = "view" /\ calls[k].status = 500
        /\ HistoryDoc(calls[k].user, calls[k].article) =
              {[user_id |-> calls[k].user, article_id |-> calls[k].article,
                time_spent |-> 30, completed |-> TRUE]}
        /\ reported[<<calls[k].user, calls[k].article>>] =
              [any |-> TRUE, sum |-> 30, last |-> TRUE]

\* the poll-vote documents of user u on poll p
VotesOf(u, p) == {v \in poll_votes : v.user_id = u /\ v.poll_id = p}

LikesOf(u, a) == {d \in article_likes : d.user_id = u /\ d.article_id = a}

\* C18 (as claimed): however many times U liked A there is exactly one like
\* document for (U, A), and in a profile computed for U afterwards the likes
\* sub-score of A's category is 5.
C18_LikeIsIdempotent ==
    \A r \in Reqs : Computed(r) =>
        \A d \in article_likes :
            (d.user_id = req[r].user /\ CatOf(articles, d.article_id) # NoCategory) =>
                /\ Cardinality(LikesOf(d.user_id, d.article_id)) = 1
                /\ Get(req[r].affinity.likes, CatOf(articles, d.article_id)) = RInt(5)

-----------------------------------------------------------------------------
(* Specification of repeated aggregation: the writers run first; then two    *)
(* request slots of u1 run the Aggregator, overlapping or one after the      *)
(* other, the clock stepping past the TTL in between, on collections that    *)
(* no longer change.                                                         *)

NextIdem ==
    \/ Quiet /\ View("u1", 3)
    \/ Quiet /\ Like("u1", 3)
    \/ Tick(AFFINITY_CACHE_TTL_SEC)
    \/ \E r \in Reqs : FeedStart(r, "u1", NoQuery, 20, 0)
    \/ \E r \in Reqs : GocCheck(r)
    \/ \E r \in Reqs : GocHistory(r)
    \/ \E r \in Reqs : GocComments(r)
    \/ \E r \in Reqs : GocVotes(r)
    \/ \E r \in Reqs : GocLikes(r)
    \/ \E r \in Reqs : GocWrite(r)
    \/ \E r \in Reqs : FeedFinish(r, {})
    \/ \E r \in Reqs : FeedReturn(r)

SpecIdem == Init /\ [][NextIdem]_vars

\* every collection of the document store
storeVars == <<dbVars, polls, user_sessions, ai_questions_cache, claude_categorized>>

\* C19: no step of a feed request, the Aggregator's steps included, changes
\* a collection of the document store; and on collections that do not change
\* every profile the Aggregator computes for a user equals every other one
\* computed for that user, concurrently or earlier (the latest one stored).
C19_AggregatorIdempotent ==
    /\ [][(\E r \in Reqs : req'[r] # req[r]) => UNCHANGED storeVars]_vars
    /\ [](\A r \in Reqs : Computed(r) =>
            /\ \A q \in Reqs : (Computed(q) /\ req[q].user = req[r].user)
                                  => req[q].affinity = req[r].affinity
            /\ lastStore[req[r].user] # NoEntry
                  => req[r].affinity = lastStore[req[r].user].scores)

\* C19 witness: a second run, 300 seconds after the first one stored a
\* profile with a Technology like, has computed the same profile again
C19_Witness ==
    \E r \in Reqs :
        /\ Computed(r)
        /\ req[r].age = AFFINITY_CACHE_TTL_SEC
        /\ req[r].stored.likes = OneKey("Technology", RInt(5))
        /\ req[r].affinity = req[r].stored

-----------------------------------------------------------------------------
(* Specification of the authenticated endpoints: calls of every modelled     *)
(* endpoint that needs a user, one at a time, with every kind of token,      *)
(* while the clock runs past the expiry of session s1 and session s2 is      *)
(* logged out.                                                               *)

\* one request per endpoint
AuthRequests ==
    {Request("me", 0, "", "", 0, FALSE),
     [Request("interests", 0, "", "", 0, FALSE) EXCEPT !.interests = {"Politics"}],
     Request("like", 3, "", "", 0, FALSE),
     Request("view", 3, "", "", 0, FALSE),
     Request("reading_time", 3, "", "", 30, TRUE),
     Request("comment", 3, "", "", 0, FALSE),
     Request("vote", 0, "p1", "yes", 0, FALSE),
     Request("feedback", 3, "", "", 0, TRUE)}

\* <<token, request>>: every endpoint with every token but s2, the token of
\* the session that is logged out, which is tried on /auth/me
AuthCalls ==
    ((Tokens \ {"s2"}) \X AuthRequests) \cup {<<"s2", Request("me", 0, "", "", 0, FALSE)>>}

NextAuth ==
    \/ Tick(1)
    \/ Logout("s2")
    \/ \E x \in AuthCalls : Enter("k1", x[1], x[2])
    \/ \E k \in CallIds : AccountBody(k)
    \/ \E k \in CallIds : LikeBody(k)
    \/ \E k \in CallIds : ViewBody(k)
    \/ \E k \in CallIds : ViewInsert(k)
    \/ \E k \in CallIds : ReadingTimeBody(k)
    \/ \E k \in CallIds : CommentBody(k)
    \/ \E k \in CallIds : VoteBody(k)
    \/ \E k \in CallIds : VoteInsert(k)
    \/ \E k \in CallIds : VoteCount(k)
    \/ \E k \in CallIds : FeedbackBody(k)
    \/ \E u \in Users : FeedbackInvalidate(u)
    \/ \E k \in CallIds : Return(k)

SpecAuth == Init /\ [][NextAuth]_vars

\* the request carries no session token, or one of no session document, or
\* one of a session whose expires_at is in the past
Unauthenticated(token) ==
    \/ token = NoToken
    \/ token \notin DOMAIN user_sessions
    \/ user_sessions[token].expires_at < now

-----------------------------------------------------------------------------
(* Specification of the history signals: article 3 has a baseline of 20      *)
(* seconds, shorter than the reported times; u1 views and reports reading    *)
(* times on articles with a baseline, without one and without a category;    *)
(* then requests of u1 run one after the other.                              *)

InitHist ==
    /\ redisOn = FALSE
    /\ now = StartTime
    /\ ticks = 0
    /\ articles = [SeedArticles EXCEPT ![3].reading_time_sec = 20]
    /\ interests = [u \in Users |-> IF u = "u1" THEN {"Technology"} ELSE {}]
    /\ reading_history = {}
    /\ comments = [k \in Users \X ArticleIds |-> 0]
    /\ poll_votes = {}
    /\ article_likes = {}
    /\ relevance_feedback = <<>>
    /\ affinity_cache = [u \in Users |-> NoEntry]
    /\ redis = [u \in Users |-> NoEntry]
    /\ req = [r \in Reqs |-> IdleReq]
    /\ scoring = NoScoring
    /\ fbInFlight = {}
    /\ fbDone = [u \in Users |-> 0]
    /\ lastStore = [u \in Users |-> NoEntry]
    /\ InitOps
    /\ InitSys

NextHist ==
    \/ Quiet /\ \E a \in {2, 3, 4} : View("u1", a)
    \/ Quiet /\ \E a \in {1, 2, 3}, c \in BOOLEAN : ReadingTime("u1", a, 30, c)
    \/ \E r \in SerialReqs : FeedStart(r, "u1", NoQuery, 20, 0)
    \/ \E r \in SerialReqs : GocHistory(r)
    \/ \E r \in SerialReqs : GocComments(r)
    \/ \E r \in SerialReqs : GocVotes(r)
    \/ \E r \in SerialReqs : GocLikes(r)
    \/ \E r \in SerialReqs : FeedFinish(r, {})
    \/ \E r \in SerialReqs : FeedReturn(r)

SpecHist == InitHist /\ [][NextHist]_vars

\* the history entries of u whose article has category c
EntriesIn(u, c) ==
    {h \in reading_history :
        /\ h.user_id = u
        /\ h.article_id \in DOMAIN articles
        /\ articles[h.article_id].category = c}

\* those of them whose article has a baseline
WithBaseline(H) == {h \in H : articles[h.article_id].reading_time_sec > 0}

\* sum over H of min(time_spent / reading_time_sec, 1), in sixtieths (every
\* baseline of the table divides 60 and no time is negative here)
RECURSIVE SixtiethsRead(_)
SixtiethsRead(H) ==
    IF H = {} THEN 0
    ELSE LET h == CHOOSE x \in H : TRUE
             part == h.time_spent * (60 \div articles[h.article_id].reading_time_sec)
         IN  (IF part > 60 THEN 60 ELSE part) + SixtiethsRead(H \ {h})

\* C22: in every computed profile, for each category c with entries H of the
\* user (B those with a baseline): completion[c] = 20 * completed(H) / |H|,
\* and c has no completion key when H is empty; engagement[c] = 20 * the
\* average over B of min(time_spent / reading_time_sec, 1), and c has no
\* engagement key when B is empty.
C22_CompletionAndEngagement ==
    \A r \in Reqs : Computed(r) =>
        \A c \in Categories :
            LET H == EntriesIn(req[r].user, c)
                B == WithBaseline(H)
                p == req[r].affinity
            IN  /\ DOMAIN p.completion \subseteq Categories
                /\ DOMAIN p.engagement \subseteq Categories
                /\ IF H = {} THEN c \notin DOMAIN p.completion
                   ELSE /\ c \in DOMAIN p.completion
                        /\ p.completion[c] =
                              Rat(20 * Cardinality({h \in H : h.completed}), Cardinality(H))
                /\ IF B = {} THEN c \notin DOMAIN p.engagement
                   ELSE /\ c \in DOMAIN p.engagement
                        /\ p.engagement[c] =
                              Rat(20 * SixtiethsRead(B), 60 * Cardinality(B))

\* C22 witness: the only Politics entry is on the article without a baseline
\* (a completion key, no engagement key), and Technology has one entry read
\* for longer than its baseline and one category-less entry beside it
C22_Witness ==
    \E r \in Reqs :
        /\ Computed(r)
        /\ EntriesIn("u1", "Politics") # {}
        /\ WithBaseline(EntriesIn("u1", "Politics")) = {}
        /\ "Politics" \in DOMAIN req[r].affinity.completion
        /\ "Politics" \notin DOMAIN req[r].affinity.engagement
        /\ \E h \in EntriesIn("u1", "Technology") : h.time_spent = 30
        /\ Get(req[r].affinity.engagement, "Technology") = RInt(20)
        /\ \E h \in reading_history : h.article_id = 4

-----------------------------------------------------------------------------
(* Specification of cancelled feed requests: requests of u1 one after the    *)
(* other, on both backends, each of which may be cancelled at any await of   *)
(* _get_user_affinity_scores; views and likes change the collections and    *)
(* the clock steps past the TTL.                                             *)

NextCancel ==
    \/ Tick(AFFINITY_CACHE_TTL_SEC)
    \/ View("u1", 3)
    \/ Like("u1", 3)
    \/ \E r \in SerialReqs : FeedStart(r, "u1", NoQuery, 20, 0)
    \/ \E r \in SerialReqs : GocCheck(r)
    \/ \E r \in SerialReqs : GocHistory(r)
    \/ \E r \in SerialReqs : GocComments(r)
    \/ \E r \in SerialReqs : GocVotes(r)
    \/ \E r \in SerialReqs : GocLikes(r)
    \/ \E r \in SerialReqs : GocWrite(r)
    \/ \E r \in SerialReqs : Cancel(r)
    \/ \E r \in SerialReqs : CancelInWrite(r)
    \/ \E r \in SerialReqs : FeedFinish(r, {})
    \/ \E r \in SerialReqs : FeedReturn(r)

SpecCancel == Init /\ [][NextCancel]_vars

\* the profile held for u by the backend in use, NoEntry when there is none
HeldProfile(dict, store, u) ==
    IF redisOn
    THEN IF store[u] = NoEntry THEN NoEntry ELSE JsonLoads(store[u].value)
    ELSE IF dict[u] = NoEntry THEN NoEntry ELSE dict[u].scores

\* C23: a step in which the cache entry of a request's user changes is the
\* step in which that request's Aggregator call returns, after all of its
\* reads (four, or the history read alone when it returned no documents and
\* the empty profile is stored), and what is stored is the returned profile
\* with all five signal families; a request cancelled before its write has
\* left both cache entries of its user as they were when it started.
C23_CacheWriteIsLast ==
    /\ [][\A r \in Reqs :
            (req[r].pc \notin {"idle", "done", "failed"}
                /\ <<affinity_cache[req[r].user], redis[req[r].user]>>
                     # <<affinity_cache'[req[r].user], redis'[req[r].user]>>
                /\ req'[r].error # "cancelled in write")
            => /\ req'[r].pc = "rel"
               /\ HeldProfile(affinity_cache', redis', req[r].user) = req'[r].affinity
               /\ DOMAIN req'[r].affinity = ProfileFields
               /\ \/ req'[r].reads = 4
                  \/ /\ req'[r].reads = 1
                     /\ req'[r].affinity = EmptyProfile]_vars
    /\ [](\A r \in Reqs :
            req[r].error = "cancelled" =>
                /\ req[r].pc = "failed"
                /\ affinity_cache[req[r].user] = req[r].entry0.dict
                /\ redis[req[r].user] = req[r].entry0.redis)

\* C23 witness: a request that found a stale entry, read history, comments
\* and votes and was then cancelled; the stale entry is still the entry
C23_Witness ==
    \E r \in Reqs :
        /\ req[r].pc = "failed" /\ req[r].error = "cancelled"
        /\ req[r].reads = 3
        /\ req[r].entry0.dict # NoEntry
        /\ affinity_cache[req[r].user] = req[r].entry0.dict

-----------------------------------------------------------------------------
(* Specification of the cache frame: calls of u1 to every modelled endpoint  *)
(* alternate with feed requests of u1 and of anonymous callers, on both      *)
(* backends; a call starts when no feed request is running and a feed        *)
(* request when no call is.                                                  *)

\* no feed request is running; no call is running
NoRequest == \A r \in Reqs : req[r].pc = "idle"
NoCall == fbInFlight = {} /\ \A k \in CallIds : calls[k].pc = "idle"

\* one request per endpoint that writes
FrameRequests ==
    (AuthRequests \ {Request("me", 0, "", "", 0, FALSE),
                     Request("reading_time", 3, "", "", 30, TRUE)})
    \cup {Request("reading_time", 3, "", "", 60, TRUE)}

NextFrame ==
    \/ \E rq \in FrameRequests : NoRequest /\ Enter("k1", "s1", rq)
    \/ \E k \in CallIds : AccountBody(k)
    \/ \E k \in CallIds : LikeBody(k)
    \/ \E k \in CallIds : ViewBody(k)
    \/ \E k \in CallIds : ViewInsert(k)
    \/ \E k \in CallIds : ReadingTimeBody(k)
    \/ \E k \in CallIds : CommentBody(k)
    \/ \E k \in CallIds : VoteBody(k)
    \/ \E k \in CallIds : VoteInsert(k)
    \/ \E k \in CallIds : VoteCount(k)
    \/ \E k \in CallIds : FeedbackBody(k)
    \/ \E k \in CallIds : Return(k)
    \/ FeedbackInvalidate("u1")
    \/ \E r \in SerialReqs, u \in {NoUser, "u1"} :
          NoCall /\ FeedStart(r, u, NoQuery, 20, 0)
    \/ \E r \in SerialReqs : GocCheck(r)
    \/ \E r \in SerialReqs : GocHistory(r)
    \/ \E r \in SerialReqs : GocComments(r)
    \/ \E r \in SerialReqs : GocVotes(r)
    \/ \E r \in SerialReqs : GocLikes(r)
    \/ \E r \in SerialReqs : GocWrite(r)
    \/ \E r \in SerialReqs : FeedFinish(r, {})
    \/ \E r \in SerialReqs : FeedReturn(r)

SpecFrame == Init /\ [][NextFrame]_vars

\* this step is the return of an Aggregator run for u
AggregatorCompletes(u) ==
    \E r \in Reqs :
        /\ req[r].user = u
        /\ req[r].pc \in {"hist", "likes", "write"}
        /\ req'[r].pc = "rel"

\* C24: every step that changes the cache entry of a user u, in the dict or
\* in Redis, either is the completion of an Aggregator run for u and leaves
\* an entry there, or is the completion of a relevance-feedback submission
\* of u and leaves none; so no step of like, view, reading-time, comment,
\* vote, interests update or the anonymous feed changes either cache.
C24_CacheFrame ==
    [][\A u \in Users :
          /\ affinity_cache'[u] # affinity_cache[u]
                => \/ AggregatorCompletes(u) /\ affinity_cache'[u] # NoEntry
                   \/ fbDone'[u] = fbDone[u] + 1 /\ affinity_cache'[u] = NoEntry
          /\ redis'[u] # redis[u]
                => AggregatorCompletes(u) /\ redis'[u] # NoEntry]_vars

\* C24 witness: u1 has an entry in the dict while a like of u1 and a comment
\* of u1 are in the collections that the entry's profile does not show
C24_Witness ==
    /\ affinity_cache["u1"] # NoEntry
    /\ \E d \in article_likes : d.user_id = "u1"
    /\ comments[<<"u1", 3>>] > 0
    /\ HasHistory("u1")
    /\ affinity_cache["u1"].scores.likes = EmptyMap
    /\ affinity_cache["u1"].scores.comments = EmptyMap

\* C25: when two requests of one user have both run the Aggregator on
\* collections that did not change meanwhile, both have the same profile,
\* and the profile the cache holds for the user is that profile.
C25_ConcurrentMisses ==
    \A r, q \in Reqs :
        (r # q /\ Computed(r) /\ Computed(q) /\ req[r].user = req[q].user)
        => /\ req[r].affinity = req[q].affinity
           /\ HeldProfile(affinity_cache, redis, req[r].user) = req[r].affinity

\* C25 witness: both requests looked the cache up before either had stored
\* anything, both ran the Aggregator, and both have a profile with the
\* Technology like
C25_Witness ==
    /\ \A r \in Reqs :
          /\ Computed(r)
          /\ req[r].user = "u1"
          /\ req[r].age = -1
          /\ req[r].reads = 4
          /\ req[r].affinity.likes = OneKey("Technology", RInt(5))
    /\ HeldProfile(affinity_cache, redis, "u1") = req["r1"].affinity

-----------------------------------------------------------------------------
(* Relevance feedback and the cache (under Spec) *)

\* C26: the step of a personalized feed request that computes
\* relevance_by_category computes it from all of the user's feedback
\* records in the collection at that moment, those of every submission
\* completed before the request started included: every category of such a
\* record is a key, with the average over all of them, whether the profile
\* came from the cache or from the Aggregator, on either backend.
C26_FeedbackReflectedAtOnce ==
    [][\A r \in Reqs :
          (req[r].pc = "rel" /\ req'[r].pc = "done")
          => LET u == req[r].user
                 rel == req'[r].relevance_by_category
             IN  \A c \in Categories :
                    IF RecordsIn(u, c) = {} THEN c \notin DOMAIN rel
                    ELSE /\ c \in DOMAIN rel
                         /\ rel[c] = Rat(Cardinality(RelevantIn(u, c)),
                                         Cardinality(RecordsIn(u, c)))]_vars

\* C26 witness: a request that started after a feedback submission had
\* completed got its profile from a cache entry stored before the
\* submission, and its relevance averages show the record
C26_Witness ==
    \E r \in Reqs :
        /\ req[r].pc = "done"
        /\ req[r].hit = "hit"
        /\ req[r].inval
        /\ req[r].relevance_by_category = OneKey("Technology", RInt(1))

\* C27 (as claimed): an Aggregator run that writes the user's entry of the
\* in-process cache began after every relevance-feedback submission of the
\* user that has completed by then: no run that began before an invalidation
\* stores its profile after it.
C27_NoStaleWriteAfterInvalidation ==
    [][\A r \in Reqs :
          (/\ ~redisOn
           /\ req[r].pc \in {"hist", "likes"}
           /\ req'[r].pc = "rel"
           /\ affinity_cache'[req[r].user] # affinity_cache[req[r].user])
          => fbDone[req[r].user] = req[r].fb0]_vars

-----------------------------------------------------------------------------
(* Poll tallies (under SpecVote; the polls are created with all counts 0) *)

\* the vote documents of poll p with option o
VotesFor(p, o) == {v \in poll_votes : v.poll_id = p /\ v.option = o}

\* the calls that have inserted a vote for o on p and not yet counted it
Counting(p, o) ==
    {k \in CallIds : calls[k].pc = "count" /\ calls[k].poll = p /\ calls[k].option = o}

DefaultQuestions ==
    << "What are the immediate implications of this?",
       "Who benefits and who loses from this development?",
       "What should we watch for in the coming weeks?" >>

\* the list returned when the LLM call or the insert raises
FallbackQuestions ==
    << "What are the key takeaways from this?",
       "How might this affect you personally?",
       "What happens next?" >>

\* lines of an LLM answer: a blank line, a line of spaces, a bare number, a
\* numbered question, a question
AnswerLines == {"", " ", "1.", "1. q", "q"}

\* the longest LLM answer, in lines
MaxAnswerLines == 4

\* the LLM answers: response.strip().split('\n')
Answers == UNION {[1..n -> AnswerLines] : n \in 0..MaxAnswerLines}

\* q.strip() of a line
Stripped(q) == IF q = " " THEN "" ELSE q

\* q.strip().lstrip('0123456789.-) ') of a line
Unnumbered(q) ==
    CASE Stripped(q) = "1."   -> ""
      [] Stripped(q) = "1. q" -> "q"
      [] OTHER                -> Stripped(q)

\* the lines of the answer with q.strip() not empty
RECURSIVE NonBlank(_)
NonBlank(lines) ==
    IF lines = <<>> THEN <<>>
    ELSE IF Stripped(Head(lines)) # "" THEN <<Head(lines)>> \o NonBlank(Tail(lines))
    ELSE NonBlank(Tail(lines))

\* [q.strip().lstrip(..) for q in response.strip().split('\n') if q.strip()]
UnnumberedLines(lines) == [i \in 1..Len(NonBlank(lines)) |-> Unnumbered(NonBlank(lines)[i])]

\* the same list without the [:3]
questions_unsliced(lines) == UnnumberedLines(lines)

\* the questions taken from an LLM answer
questions(lines) == Take(UnnumberedLines(lines), 3)

\* db.ai_questions_cache.find_one({"article_id": article_id}): the first such document
CachedQuestions(a) ==
    LET hits == SelectSeq(ai_questions_cache, LAMBDA d : d.article_id = a)
    IN  IF hits = <<>> THEN NoEntry ELSE Head(hits)

\* article ids asked for: a seeded article and an id with no document
AskedArticles == {1, 99}

\* the call is made; the article is looked up
AiStart(k, a) ==
    /\ ai[k].pc = "idle"
    /\ ai' = [ai EXCEPT ![k] =
                 IF a \in DOMAIN articles
                 THEN [IdleAi EXCEPT !.pc = "cache", !.article = a]
                 ELSE [IdleAi EXCEPT !.pc = "returned", !.article = a, !.status = 404]]
    /\ UNCHANGED <<webVars, anthropic_api_key,
                   ai_questions_cache, ingest, ingestion_lock, recat, claude_categorized>>

\* the cache is looked up: a hit returns the stored list, no key returns the defaults
AiCache(k) ==
    /\ ai[k].pc = "cache"
    /\ LET cached == CachedQuestions(ai[k].article)
       IN  ai' = [ai EXCEPT ![k] =
                 IF cached # NoEntry
                 THEN [@ EXCEPT !.pc = "returned", !.questions = cached.questions,
                                !.status = 200, !.path = "cached"]
                 ELSE IF ~anthropic_api_key
                 THEN [@ EXCEPT !.pc = "returned", !.questions = DefaultQuestions,
                                !.status = 200, !.path = "default"]
                 ELSE [@ EXCEPT !.pc = "llm"]]
    /\ UNCHANGED <<webVars, anthropic_api_key,
                   ai_questions_cache, ingest, ingestion_lock, recat, claude_categorized>>

\* _llm returns an answer, which is cut into questions
AiAnswer(k, lines) ==
    /\ ai[k].pc = "llm"
    /\ ai' = [ai EXCEPT ![k] = [@ EXCEPT !.pc = "insert", !.questions = questions(lines),
                                         !.lines = Len(NonBlank(lines))]]
    /\ UNCHANGED <<webVars, anthropic_api_key,
                   ai_questions_cache, ingest, ingestion_lock, recat, claude_categorized>>

\* _llm or insert_one raises: the except branch returns the fallback list
AiRaise(k) ==
    /\ ai[k].pc \in {"llm", "insert"}
    /\ ai' = [ai EXCEPT ![k] = [@ EXCEPT !.pc = "returned", !.questions = FallbackQuestions,
                                         !.status = 200, !.path = "failed"]]
    /\ UNCHANGED <<webVars, anthropic_api_key,
                   ai_questions_cache, ingest, ingestion_lock, recat, claude_categorized>>

\* the list is inserted into ai_questions_cache and returned
AiInsert(k) ==
    /\ ai[k].pc = "insert"
    /\ ai_questions_cache' = Append(ai_questions_cache,
                                    [article_id |-> ai[k].article,
                                     questions |-> ai[k].questions])
    /\ ai' = [ai EXCEPT ![k] = [@ EXCEPT !.pc = "returned", !.status = 200, !.path = "llm"]]
    /\ UNCHANGED <<webVars, anthropic_api_key,
                   ingest, ingestion_lock, recat, claude_categorized>>

\* the response has been sent
AiDone(k) ==
    /\ ai[k].pc = "returned"
    /\ ai' = [ai EXCEPT ![k] = IdleAi]
    /\ UNCHANGED <<webVars, anthropic_api_key,
                   ai_questions_cache, ingest, ingestion_lock, recat, claude_categorized>>

\* the process runs with or without ANTHROPIC_API_KEY
InitAi ==
    /\ redisOn = FALSE
    /\ InitCore
    /\ anthropic_api_key \in BOOLEAN
    /\ ai_questions_cache = <<>>
    /\ ai = [k \in AiIds |-> IdleAi]
    /\ ingest = [i \in Instances |-> NoIngestor]
    /\ ingestion_lock = NoEntry
    /\ recat = IdleRecat
    /\ claude_categorized = {}

NextAi ==
    \E k \in AiIds :
        \/ \E a \in AskedArticles : AiStart(k, a)
        \/ AiCache(k)
        \/ \E lines \in Answers : AiAnswer(k, lines)
        \/ AiRaise(k)
        \/ AiInsert(k)
        \/ AiDone(k)

SpecAi == InitAi /\ [][NextAi]_vars

\* C21: every list of questions returned for an existing article, whether from
\* the cache, the defaults, an LLM answer of any number of lines or the failure
\* branch, has at most 3 questions, and so has every list stored in
\* ai_questions_cache.
C21_AtMostThreeQuestions ==
    /\ \A k \in AiIds :
          (ai[k].pc = "returned" /\ ai[k].status = 200) =>
              /\ ai[k].path \in {"cached", "default", "llm", "failed"}
              /\ Len(ai[k].questions) <= 3
    /\ \A i \in 1..Len(ai_questions_cache) : Len(ai_questions_cache[i].questions) <= 3

\* C21: an LLM answer of four non-blank lines was cut to three questions and
\* stored, and another call was served that stored list from the cache.
C21_Witness ==
    \E k, j \in AiIds :
        /\ ai[k].pc = "returned" /\ ai[k].path = "llm" /\ ai[k].lines = 4
        /\ Len(ai[k].questions) = 3
        /\ ai[j].pc = "returned" /\ ai[j].path = "cached"
        /\ ai[j].questions = ai[k].questions
        /\ Len(ai_questions_cache) = 1

(***************************************************************************)
(* _background_news_ingestor, one task per application instance, started   *)
(* by lifespan.  The loop is cut at its awaits; the clock can advance      *)
(* between any two of them, since neither the fetch nor the LLM calls of   *)
(* the body have a deadline shorter than the lock's expiry.                *)
(***************************************************************************)

\* ex=25 * 60 of the ingestion:lock key, in seconds
LOCK_TTL_SEC == 25 * 60

\* asyncio.sleep(30 * 60), in seconds
INGEST_SLEEP_SEC == 30 * 60

\* .limit(30) of the ingestor's categorization step
CATEGORIZE_LIMIT == 30

\* _valid_cats, as far as the model has categories
ValidCats == {"Technology", "Politics"}

\* what an LLM categorization call does: a valid name, another text, an exception
LlmOutcomes == {"Technology", "Gossip", "raise"}

\* Redis holds the key ingestion:lock (a key past its expiry is gone)
LockHeld == ingestion_lock # NoEntry /\ now < ingestion_lock.exp

\* the articles in the order find() returns them
RECURSIVE InIdOrder(_)
InIdOrder(S) ==
    IF S = {} THEN <<>>
    ELSE LET a == CHOOSE x \in S : \A y \in S : x <= y
         IN  <<a>> \o InIdOrder(S \ {a})

\* db.articles.find({"claude_categorized": {"$ne": True}}).limit(n).to_list(n)
Uncategorized(n) == Take(InIdOrder(DOMAIN articles \ claude_categorized), n)

\* the instance is between taking the lock and the sleep that ends the cycle
InBody(i) == ingest[i].pc \in {"upsert", "polls", "find", "categorize", "summarize"}

\* the instance's ingestor after the cycle: asleep for 30 minutes
Asleep(i, skipped) ==
    [ingest[i] EXCEPT !.pc = "sleep", !.wake = now + INGEST_SLEEP_SEC, !.batch = <<>>,
                      !.skipped = skipped]

\* lifespan creates the task
IngestStartup(i) ==
    /\ ingest[i].pc = "off"
    /\ ingest' = [ingest EXCEPT ![i] = [@ EXCEPT !.pc = "lock"]]
    /\ UNCHANGED <<webVars, anthropic_api_key, ai_questions_cache, ai, ingestion_lock, recat,
                   claude_categorized>>

\* step 0: SET ingestion:lock 1 NX EX 1500; without Redis there is no lock
IngestLock(i) ==
    /\ ingest[i].pc = "lock"
    /\ IF redisOn /\ LockHeld
       THEN /\ ingest' = [ingest EXCEPT ![i] = Asleep(i, TRUE)]
            /\ UNCHANGED ingestion_lock
       ELSE /\ ingest' = [ingest EXCEPT ![i] = [@ EXCEPT !.pc = "upsert", !.skipped = FALSE]]
            /\ ingestion_lock' = IF redisOn THEN [exp |-> now + LOCK_TTL_SEC]
                                 ELSE ingestion_lock
    /\ UNCHANGED <<webVars, anthropic_api_key, ai_questions_cache, ai, recat,
                   claude_categorized>>

\* step 1: fetch_from_newsapi returns no article (NEWSAPI_KEY unset or the
\* fetch failed), so nothing is upserted; steps 2 to 4 need ANTHROPIC_API_KEY
IngestUpsert(i) ==
    /\ ingest[i].pc = "upsert"
    /\ ingest' = [ingest EXCEPT ![i] =
                     IF anthropic_api_key THEN [@ EXCEPT !.pc = "polls"] ELSE Asleep(i, FALSE)]
    /\ UNCHANGED <<webVars, anthropic_api_key, ai_questions_cache, ai, ingestion_lock, recat,
                   claude_categorized>>

\* step 2: polls are generated for articles that lack one; these are new
\* documents of db.polls, none of them a poll that is voted on here
IngestPolls(i) ==
    /\ ingest[i].pc = "polls"
    /\ ingest' = [ingest EXCEPT ![i] = [@ EXCEPT !.pc = "find"]]
    /\ UNCHANGED <<webVars, anthropic_api_key, ai_questions_cache, ai, ingestion_lock, recat,
                   claude_categorized>>

\* step 3: the articles not yet categorized are read
IngestFind(i) ==
    /\ ingest[i].pc = "find"
    /\ LET to_categorize == Uncategorized(CATEGORIZE_LIMIT)
       IN  ingest' = [ingest EXCEPT ![i] =
                         [@ EXCEPT !.pc = IF to_categorize = <<>> THEN "summarize"
                                          ELSE "categorize",
                                   !.batch = to_categorize]]
    /\ UNCHANGED <<webVars, anthropic_api_key, ai_questions_cache, ai, ingestion_lock, recat,
                   claude_categorized>>

\* step 3, one article: a valid category is stored and the article marked;
\* any other answer and an exception leave the article as it was
IngestCategorize(i, raw) ==
    /\ ingest[i].pc = "categorize"
    /\ LET art == Head(ingest[i].batch)
           rest == Tail(ingest[i].batch)
       IN  /\ ingest' = [ingest EXCEPT ![i] =
                            [@ EXCEPT !.pc = IF rest = <<>> THEN "summarize" ELSE "categorize",
                                      !.batch = rest]]
           /\ IF raw \in ValidCats
              THEN /\ articles' = [articles EXCEPT ![art].category = raw]
                   /\ claude_categorized' = claude_categorized \cup {art}
              ELSE UNCHANGED <<articles, claude_categorized>>
    /\ UNCHANGED <<now, ticks, redisOn, scoring, affinity_cache, redis, req, fbDone, lastStore,
                   interests, reading_history, comments, poll_votes, article_likes,
                   relevance_feedback, fbInFlight, opVars, anthropic_api_key,
                   ai_questions_cache, ai, ingestion_lock, recat>>

\* step 4: summaries are written to fields that nothing here reads; then the
\* cycle ends with the 30-minute sleep.  The lock is not deleted.
IngestSummarize(i) ==
    /\ ingest[i].pc = "summarize"
    /\ ingest' = [ingest EXCEPT ![i] = Asleep(i, FALSE)]
    /\ UNCHANGED <<webVars, anthropic_api_key, ai_questions_cache, ai, ingestion_lock, recat,
                   claude_categorized>>

\* the sleep is over: the loop starts again
IngestWake(i) ==
    /\ ingest[i].pc = "sleep"
    /\ now >= ingest[i].wake
    /\ ingest' = [ingest EXCEPT ![i] = [@ EXCEPT !.pc = "lock"]]
    /\ UNCHANGED <<webVars, anthropic_api_key, ai_questions_cache, ai, ingestion_lock, recat,
                   claude_categorized>>

\* clock steps: five minutes, and the lock's lifetime
IngestTicks == {5 * 60, LOCK_TTL_SEC}

\* time passes while the instances sleep or wait for the LLM; the Redis and
\* database calls and the news fetch (httpx timeout of 15 s) are short
IngestTime(d) ==
    /\ \A i \in Instances : ingest[i].pc \notin {"lock", "upsert", "find"}
    /\ Tick(d)

\* two instances, not yet started, with or without Redis and the LLM key;
\* articles 1 and 2 are already categorized
InitIngest ==
    /\ redisOn \in BOOLEAN
    /\ InitCore
    /\ anthropic_api_key \in BOOLEAN
    /\ ai_questions_cache = <<>>
    /\ ai = [k \in AiIds |-> IdleAi]
    /\ ingest = [i \in Instances |-> NoIngestor]
    /\ ingestion_lock = NoEntry
    /\ recat = IdleRecat
    /\ claude_categorized = {1, 2}

NextIngest ==
    \/ \E d \in IngestTicks : IngestTime(d)
    \/ \E i \in Instances :
          \/ IngestStartup(i)
          \/ IngestLock(i)
          \/ IngestUpsert(i)
          \/ IngestPolls(i)
          \/ IngestFind(i)
          \/ \E raw \in LlmOutcomes : IngestCategorize(i, raw)
          \/ IngestSummarize(i)
          \/ IngestWake(i)

SpecIngest == InitIngest /\ [][NextIngest]_vars

\* C29: with Redis configured, no two instances are inside the ingestion body
\* at the same time, and an instance that did not get ingestion:lock is asleep
\* until 30 minutes after its attempt.
C29_IngestionMutualExclusion ==
    redisOn =>
        /\ \A i, j \in Instances : (InBody(i) /\ InBody(j)) => i = j
        /\ \A i \in Instances :
              (ingest[i].pc = "sleep" /\ ingest[i].skipped) =>
                  /\ ingest[i].wake <= now + INGEST_SLEEP_SEC
                  /\ ingestion_lock # NoEntry

(***************************************************************************)
(* POST /admin/recategorize: admin_recategorize, cut at its awaits (the    *)
(* find of a batch, and per article the LLM call with its update).         *)
(***************************************************************************)

\* .limit(10) of a batch of admin_recategorize
RECAT_BATCH_LIMIT == 10

\* articles in the collection when the migration is run
RecatArticles == 11

\* what the LLM call for an article can do: anything for the first three
\* articles, a valid or an unknown name for the others
RecatOutcomes(art) ==
    IF art <= 3 THEN LlmOutcomes
    ELSE IF art % 2 = 0 THEN {"Technology"} ELSE {"Gossip"}

\* the call is made: 503 without ANTHROPIC_API_KEY
RecatStart ==
    /\ recat.pc = "idle"
    /\ recat' = IF anthropic_api_key THEN [IdleRecat EXCEPT !.pc = "find"]
                ELSE [IdleRecat EXCEPT !.pc = "returned", !.status = 503]
    /\ UNCHANGED <<webVars, anthropic_api_key, ai_questions_cache, ai, ingest, ingestion_lock,
                   claude_categorized>>

\* the next batch is read; an empty batch ends the loop
RecatFind ==
    /\ recat.pc = "find"
    /\ LET batch == Uncategorized(RECAT_BATCH_LIMIT)
       IN  recat' = IF batch = <<>>
                    THEN [recat EXCEPT !.pc = "returned", !.status = 200]
                    ELSE [recat EXCEPT !.pc = "llm", !.batch = batch]
    /\ UNCHANGED <<webVars, anthropic_api_key, ai_questions_cache, ai, ingest, ingestion_lock,
                   claude_categorized>>

\* one article of the batch: a valid category is stored, the article marked
\* and counted; an unknown one only marks the article; an exception is
\* logged and leaves the article unmarked
RecatCategorize(raw) ==
    /\ recat.pc = "llm"
    /\ LET art == Head(recat.batch)
           rest == Tail(recat.batch)
       IN  /\ raw \in RecatOutcomes(art)
           /\ recat' = [recat EXCEPT !.pc = IF rest = <<>> THEN "find" ELSE "llm",
                                     !.batch = rest,
                                     !.total_updated = IF raw \in ValidCats THEN @ + 1 ELSE @]
           /\ articles' = IF raw \in ValidCats THEN [articles EXCEPT ![art].category = raw]
                          ELSE articles
           /\ claude_categorized' = IF raw = "raise" THEN claude_categorized
                                    ELSE claude_categorized \cup {art}
    /\ UNCHANGED <<now, ticks, redisOn, scoring, affinity_cache, redis, req, fbDone, lastStore,
                   interests, reading_history, comments, poll_votes, article_likes,
                   relevance_feedback, fbInFlight, opVars, anthropic_api_key,
                   ai_questions_cache, ai, ingest, ingestion_lock>>

\* the response {"updated": total_updated} has been sent
RecatDone ==
    /\ recat.pc = "returned"
    /\ recat' = [IdleRecat EXCEPT !.pc = "over"]
    /\ UNCHANGED <<webVars, anthropic_api_key, ai_questions_cache, ai, ingest, ingestion_lock,
                   claude_categorized>>

\* eleven articles, none of them categorized by the LLM yet
InitRecat ==
    /\ redisOn = FALSE
    /\ now = StartTime
    /\ ticks = 0
    /\ articles = GeneratedArticles(RecatArticles)
    /\ interests = [u \in Users |-> {}]
    /\ reading_history = {}
    /\ comments = [k \in Users \X ArticleIds |-> 0]
    /\ poll_votes = {}
    /\ article_likes = {}
    /\ relevance_feedback = <<>>
    /\ affinity_cache = [u \in Users |-> NoEntry]
    /\ redis = [u \in Users |-> NoEntry]
    /\ req = [r \in Reqs |-> IdleReq]
    /\ scoring = NoScoring
    /\ fbInFlight = {}
    /\ fbDone = [u \in Users |-> 0]
    /\ lastStore = [u \in Users |-> NoEntry]
    /\ InitOps
    /\ anthropic_api_key \in BOOLEAN
    /\ ai_questions_cache = <<>>
    /\ ai = [k \in AiIds |-> IdleAi]
    /\ ingest = [i \in Instances |-> NoIngestor]
    /\ ingestion_lock = NoEntry
    /\ recat = IdleRecat
    /\ claude_categorized = {}

\* a step of the running loop
RecatStep == RecatFind \/ \E raw \in LlmOutcomes : RecatCategorize(raw)

NextRecat == RecatStart \/ RecatStep \/ RecatDone

SpecRecat == InitRecat /\ [][NextRecat]_vars

\* every LLM call returns or raises, and the event loop keeps running the handler
SpecRecatFair == SpecRecat /\ WF_vars(RecatStep)

\* C30: once admin_recategorize has entered its loop, it eventually takes an
\* empty batch and returns, whatever the LLM calls return or raise.
C30_RecategorizeTerminates == (recat.pc = "find") ~> (recat.pc = "returned")

====
